---- MODULE Spec2Model ----
(***************************************************************************)
(* State-machine model of the two maintenance scripts of the repository:   *)
(*   scripts/PanelBytte/PanelBytte_Restart.py  (cookie-session workflow)   *)
(*   scripts/DataOnline_Restart.py             (multi-account workflow)    *)
(* The browser driver, the messaging transport and the secret store are    *)
(* external collaborators: every call into them that the code makes is     *)
(* modelled with the outcomes it can have (normal return, timeout, other   *)
(* exception), chosen nondeterministically.                                *)
(***************************************************************************)
EXTENDS Integers, Sequences, FiniteSets, TLC

\* ------------------------------------------------------------------ bounds
MaxServers == 2      \* entries per inventory response and inventory size
MaxLines == 2        \* lines of the DATA_ACCOUNT batch text
MaxLabel == 5        \* characters of a renewal-control label
MaxJar == 3       \* tokens in a session read back for rotation
MaxResponses == 2 \* responses observed while the landing page loads
MaxStr == 5       \* characters of an identity or of a resource id
MaxWords == 3     \* words of an error message
MaxLineLen == 3   \* symbols of a line of the batch text

\* --------------------------------------------------------- program constants
MAX_RETRIES == 3

\* ------------------------------------------------------------ small helpers
Range(s) == {s[i] : i \in 1..Len(s)}

SeqsUpTo(S, n) == UNION {[1..k -> S] : k \in 0..n}

\* An exception in flight: Playwright's TimeoutError or any other Exception.
ExcKinds == {"timeout", "error"}

\* Outcome of one fallible driver call or block of driver calls.
CallOutcomes == {"ok"} \cup ExcKinds

\* ============================================================ PanelBytte ==
\* State of a power control on the console page, as the locator sees it:
\* count() = 0 ("absent"), present without / with the disabled attribute.
CtlStates == {"absent", "enabled", "disabled"}

ConsolePages == [start : CtlStates, stop : CtlStates, restart : CtlStates]

\* Places inside check_need_restart where a driver call can raise.
CheckFaults == {"none", "start_count", "start_attr", "stop_count", "stop_attr"}

\* check_need_restart, lines 361-370: the stop-control half.
CheckStopPart(pg, f) ==
    IF f = "stop_count" THEN [ret |-> FALSE, raised |-> TRUE]
    ELSE IF pg.stop # "absent"
         THEN IF f = "stop_attr" THEN [ret |-> FALSE, raised |-> TRUE]
              ELSE IF pg.stop = "disabled"
                   THEN [ret |-> TRUE, raised |-> FALSE]
                   ELSE [ret |-> FALSE, raised |-> FALSE]
         ELSE [ret |-> FALSE, raised |-> FALSE]

\* A plausible slip: the stop control's test inverted.
CheckNeedRestartMutStop(pg, f) ==
    IF pg.start = "enabled" THEN [ret |-> TRUE, raised |-> FALSE]
    ELSE [ret |-> pg.stop = "enabled", raised |-> FALSE]

\* check_need_restart(page): ret is the returned bool; raised tells whether a
\* driver call raised inside it (the except clause turns that into False).
CheckNeedRestart(pg, f) ==
    IF f = "start_count" THEN [ret |-> FALSE, raised |-> TRUE]
    ELSE IF pg.start # "absent"
         THEN IF f = "start_attr" THEN [ret |-> FALSE, raised |-> TRUE]
              ELSE IF pg.start # "disabled"
                   THEN [ret |-> TRUE, raised |-> FALSE]
                   ELSE CheckStopPart(pg, f)
         ELSE CheckStopPart(pg, f)

\* Places inside do_restart where a driver call can raise.
RestartFaults == {"none", "start_count", "start_attr", "start_click", "start_wait",
                  "restart_count", "restart_attr", "restart_click", "restart_wait"}

\* A variant of the restart-control half that does not read the disabled
\* attribute.
RestartPartMutNoAttr(pg, f) ==
    IF pg.restart # "absent"
    THEN [ret |-> TRUE, clicked |-> "restart", raised |-> FALSE]
    ELSE [ret |-> FALSE, clicked |-> "none", raised |-> FALSE]

\* do_restart, lines 390-401: the restart-control half.
RestartPart(pg, f) ==
    IF f = "restart_count" THEN [ret |-> FALSE, clicked |-> "none", raised |-> TRUE]
    ELSE IF pg.restart # "absent"
         THEN IF f = "restart_attr"
              THEN [ret |-> FALSE, clicked |-> "none", raised |-> TRUE]
              ELSE IF pg.restart # "disabled"
                   THEN IF f = "restart_click"
                        THEN [ret |-> FALSE, clicked |-> "none", raised |-> TRUE]
                        ELSE IF f = "restart_wait"
                             THEN [ret |-> FALSE, clicked |-> "restart", raised |-> TRUE]
                             ELSE [ret |-> TRUE, clicked |-> "restart", raised |-> FALSE]
                   ELSE [ret |-> FALSE, clicked |-> "none", raised |-> FALSE]
         ELSE [ret |-> FALSE, clicked |-> "none", raised |-> FALSE]

\* do_restart(page): ret is the returned bool, clicked the control that
\* received a click ("none" when no click was delivered).
DoRestart(pg, f) ==
    IF f = "start_count" THEN [ret |-> FALSE, clicked |-> "none", raised |-> TRUE]
    ELSE IF pg.start # "absent"
         THEN IF f = "start_attr"
              THEN [ret |-> FALSE, clicked |-> "none", raised |-> TRUE]
              ELSE IF pg.start # "disabled"
                   THEN IF f = "start_click"
                        THEN [ret |-> FALSE, clicked |-> "none", raised |-> TRUE]
                        ELSE IF f = "start_wait"
                             THEN [ret |-> FALSE, clicked |-> "start", raised |-> TRUE]
                             ELSE [ret |-> TRUE, clicked |-> "start", raised |-> FALSE]
                   ELSE RestartPart(pg, f)
         ELSE RestartPart(pg, f)

\* ------------------------------------------------- renewal-control labels
\* A label is the text of the renewal control, a sequence of characters of a
\* small alphabet: a letter, a blank, the separator, two digits, the point.
Chars == {"R", " ", "-", "0", "4", "."}

Digits == {"0", "4"}

Labels == SeqsUpTo(Chars, MaxLabel)

\* sub in s
Contains(s, sub) ==
    \E i \in 1..(Len(s) - Len(sub) + 1) : SubSeq(s, i, i + Len(sub) - 1) = sub

\* s.strip()
Strip(s) ==
    LET nb == {i \in 1..Len(s) : s[i] # " "}
    IN IF nb = {} THEN <<>>
       ELSE SubSeq(s, CHOOSE i \in nb : \A j \in nb : i <= j,
                      CHOOSE i \in nb : \A j \in nb : i >= j)

\* s.split("-")[-1]
LastSegment(s) ==
    LET seps == {i \in 1..Len(s) : s[i] = "-"}
    IN IF seps = {} THEN s
       ELSE SubSeq(s, (CHOOSE i \in seps : \A j \in seps : i >= j) + 1, Len(s))

\* End of the maximal run of digits of s that starts at position i.
DigitRunEnd(s, i) ==
    CHOOSE e \in (i - 1)..Len(s) :
        /\ \A k \in i..e : s[k] \in Digits
        /\ (e = Len(s) \/ s[e + 1] \notin Digits)

\* re.search(r'(\d+\.?\d*)', s): <<>> when nothing matches, else the text of
\* the leftmost match (digits, an optional point, digits).
PriceMatch(s) ==
    LET ds == {i \in 1..Len(s) : s[i] \in Digits}
    IN IF ds = {} THEN <<>>
       ELSE LET b  == CHOOSE i \in ds : \A j \in ds : i <= j
                e1 == DigitRunEnd(s, b)
                e2 == IF e1 < Len(s) /\ s[e1 + 1] = "."
                      THEN DigitRunEnd(s, e1 + 2) ELSE e1
            IN SubSeq(s, b, e2)

\* float(m) == 0 for a matched text m
FloatIsZero(m) == \A i \in 1..Len(m) : m[i] \in {"0", "."}

\* lines 477-479: result["price"] for a stripped label
PriceOf(btn_text) ==
    IF Contains(btn_text, <<"-">>) THEN Strip(LastSegment(btn_text)) ELSE <<>>

\* An eligibility test that forgets the literal and looks at the price only.
IsFreeMutNoLiteral(btn_text) ==
    LET m == PriceMatch(PriceOf(btn_text)) IN m # <<>> /\ FloatIsZero(m)

\* lines 482-494: is_free for a stripped, non-empty label
IsFree(btn_text) ==
    IF Contains(btn_text, <<"0", ".", "0", "0">>) THEN TRUE
    ELSE IF PriceOf(btn_text) # <<>>
         THEN LET m == PriceMatch(PriceOf(btn_text))
              IN IF m # <<>> THEN FloatIsZero(m) ELSE FALSE
         ELSE FALSE

\* The price segment after the separator is numerically zero.
PriceIsZero(btn_text) ==
    LET m == PriceMatch(PriceOf(btn_text)) IN m # <<>> /\ FloatIsZero(m)

\* ------------------------------------------------------- check_and_renew
\* Number of candidate selectors of the confirmation control (lines 506-511).
ConfirmSelectors == 4

\* What a candidate selector of the confirmation control finds.
CandStates == {"absent", "hidden", "visible"}

\* The settings page as check_and_renew reads it: whether a balance and an
\* expiration element are found, whether a renewal control is found, the raw
\* text of that control, and the state of each confirmation candidate.
SettingsPageOf(bal, exp, btn, label, confirm) ==
    [balance |-> bal, expiration |-> exp, btn |-> btn, label |-> label,
     confirm |-> confirm]

NoFault == [at |-> "none", i |-> 0]

\* Places inside check_and_renew where a driver call can raise.
RenewFaults ==
    {[at |-> a, i |-> 0] :
        a \in {"none", "wait", "balance", "expiration", "locate",
               "renew_click", "dialog_wait"}}
    \cup {[at |-> a, i |-> k] :
            a \in {"probe", "click", "settle"}, k \in 1..ConfirmSelectors}

\* A loop that takes the confirmation for granted.
ConfirmLoopMutAssume(cands, i, f) == [confirmed |-> TRUE, clicks |-> 0]

RECURSIVE ConfirmLoop(_, _, _)
\* lines 513-524: the loop over the confirmation candidates from candidate i
\* on; an exception inside one iteration is swallowed and the loop goes on.
ConfirmLoop(cands, i, f) ==
    IF i > Len(cands) THEN [confirmed |-> FALSE, clicks |-> 0]
    ELSE IF f = [at |-> "probe", i |-> i] THEN ConfirmLoop(cands, i + 1, f)
    ELSE IF cands[i] = "visible"
         THEN IF f = [at |-> "click", i |-> i] THEN ConfirmLoop(cands, i + 1, f)
              ELSE IF f = [at |-> "settle", i |-> i]
                   THEN LET r == ConfirmLoop(cands, i + 1, f)
                        IN [confirmed |-> r.confirmed, clicks |-> r.clicks + 1]
                   ELSE [confirmed |-> TRUE, clicks |-> 1]
         ELSE ConfirmLoop(cands, i + 1, f)

\* The result dict of check_and_renew (lines 413-420) plus the clicks it made.
RenewResult(need, renewed, exp, bal, price, msg, rc, cc) ==
    [need_renew |-> need, renewed |-> renewed, expiration |-> exp,
     balance |-> bal, price |-> price, message |-> msg,
     renewClicks |-> rc, confirmClicks |-> cc]

\* lines 496-536: from the eligibility decision to the message.
RenewAct(pg, f, bal, exp, btn_text) ==
    LET price == PriceOf(btn_text)
    IN IF IsFree(btn_text)
       THEN IF f.at = "renew_click"
            THEN RenewResult(TRUE, FALSE, exp, bal, price, "check_failed", 0, 0)
            ELSE IF f.at = "dialog_wait"
                 THEN RenewResult(TRUE, FALSE, exp, bal, price, "check_failed", 1, 0)
                 ELSE LET c == ConfirmLoop(pg.confirm, 1, f)
                      IN IF c.confirmed
                         THEN RenewResult(TRUE, TRUE, exp, bal, price,
                                          "renewed_ok", 1, c.clicks)
                         ELSE RenewResult(TRUE, FALSE, exp, bal, price,
                                          "no_confirm", 1, c.clicks)
       ELSE RenewResult(FALSE, FALSE, exp, bal, price, "paid", 0, 0)

\* check_and_renew(page): never raises; an exception anywhere outside the
\* confirmation loop ends it with the fields set so far and a failure message.
CheckAndRenew(pg, f) ==
    IF f.at = "wait"
    THEN RenewResult(FALSE, FALSE, FALSE, FALSE, <<>>, "check_failed", 0, 0)
    ELSE IF f.at = "balance"
    THEN RenewResult(FALSE, FALSE, FALSE, FALSE, <<>>, "check_failed", 0, 0)
    ELSE IF f.at = "expiration"
    THEN RenewResult(FALSE, FALSE, FALSE, pg.balance, <<>>, "check_failed", 0, 0)
    ELSE IF f.at = "locate"
    THEN RenewResult(FALSE, FALSE, pg.expiration, pg.balance, <<>>,
                     "check_failed", 0, 0)
    ELSE IF ~pg.btn \/ Strip(pg.label) = <<>>
    THEN RenewResult(FALSE, FALSE, pg.expiration, pg.balance, <<>>,
                     "no_button", 0, 0)
    ELSE RenewAct(pg, f, pg.balance, pg.expiration, Strip(pg.label))

\* ------------------------------------------------------ credential tokens
\* A token name is a sequence of fragments, cut so that every prefix test the
\* code makes falls on a fragment boundary ("cf_" + "clearance", ...).
N_remember == <<"remember_web", "_x">>
N_session == <<"pterodactyl_session">>
N_xsrf == <<"XSRF-TOKEN">>
N_cfc == <<"cf_", "clearance">>
N_cfbm == <<"__", "cf_", "bm">>
N_ga == <<"_ga">>
N_unknown == <<"unknown_token">>

TokenNames == {N_remember, N_session, N_xsrf, N_cfc, N_cfbm, N_ga, N_unknown}

\* Two more names a session can hold: a numbered analytics token and a
\* challenge token of the bot-mitigation service.
N_gax == <<"_ga", "_X">>
N_cfchl == <<"cf_", "chl">>

SessionNames == TokenNames \cup {N_gax, N_cfchl}

\* name.startswith(prefix); name == prefix is the case of equal lengths
StartsWith(name, prefix) ==
    Len(prefix) <= Len(name) /\ SubSeq(name, 1, Len(prefix)) = prefix

\* important_names, lines 157-166
ImportantNames ==
    {<<"remember_web">>, <<"XSRF-TOKEN">>, <<"pterodactyl_session">>,
     <<"cf_", "clearance">>, <<"__", "cf_", "bm">>, <<"_ga">>,
     <<"cookie-dialog">>, <<"filemode">>}

\* A filter that keeps exact names only.
IsImportantMutExact(name) == name \in ImportantNames

IsImportant(name) == \E p \in ImportantNames : StartsWith(name, p)

\* sort_key, lines 182-192
SortKey(name) ==
    IF StartsWith(name, <<"remember_web">>) THEN 0
    ELSE IF name = <<"pterodactyl_session">> THEN 1
    ELSE IF name = <<"XSRF-TOKEN">> THEN 2
    ELSE IF StartsWith(name, <<"cf_">>) THEN 3
    ELSE 10

SortKeys == {0, 1, 2, 3, 10}

RECURSIVE StableSortFrom(_, _)
\* list.sort(key=sort_key): stable, so one pass per key in ascending order
StableSortFrom(names, keys) ==
    IF keys = {} THEN <<>>
    ELSE LET k == CHOOSE x \in keys : \A y \in keys : x <= y
             IsK(n) == SortKey(n) = k
         IN SelectSeq(names, IsK) \o StableSortFrom(names, keys \ {k})

\* A serializer that forgets the filter.
SaveCookiesMutNoFilter(jar) == jar

\* save_cookies_for_update(cookies): the names of the serialized string in
\* order; <<>> is the empty string returned when nothing matches.
SaveCookiesForUpdate(jar) == StableSortFrom(SelectSeq(jar, IsImportant), SortKeys)

\* One ";"-separated item of the cookie string: blank, without "=", or a pair.
CookieItems ==
    {[kind |-> "blank", name |-> <<>>], [kind |-> "noeq", name |-> <<>>]}
    \cup {[kind |-> "pair", name |-> n] : n \in {N_remember, N_unknown}}

\* Values of PANEL_BYTTE_COOKIES that pass env_or_throw (non-empty strings).
CookieStrings == {<<a>> : a \in CookieItems} \cup {<<a, b>> : a, b \in CookieItems}

RECURSIVE ParseCookieString(_)
\* parse_cookie_string, lines 111-148: the names of the cookies it returns
ParseCookieString(items) ==
    IF items = <<>> THEN <<>>
    ELSE IF Head(items).kind = "pair"
         THEN <<Head(items).name>> \o ParseCookieString(Tail(items))
         ELSE ParseCookieString(Tail(items))

\* Token sets the session can hold when they are read back (line 805).
Jars == {<<N_unknown>>, <<N_ga, N_unknown, N_remember>>}

\* ---------------------------------------------------- resource discovery
\* An entry of the "data" list of an inventory response: a server with an
\* identifier, a server without one, another object, or an entry whose
\* attributes cannot be read (the handler raises on it).
EntryKinds == {"server", "noid", "other", "bad"}

\* The body of a response: json() raises, no "data" key, or a list of entries.
Bodies ==
    {[kind |-> k, entries |-> <<>>] : k \in {"nojson", "nodata"}}
    \cup {[kind |-> "list", entries |-> e] : e \in SeqsUpTo(EntryKinds, MaxServers)}

\* A response: whether it matches the endpoint pattern with status 200, and
\* its body.
Responses == [match : BOOLEAN, body : Bodies]

RECURSIVE Extract(_, _)
\* lines 622-633: the entries appended from position i on, until the end of
\* the list or the entry on which the handler raises.
Extract(entries, i) ==
    IF i > Len(entries) THEN [add |-> <<>>, done |-> TRUE]
    ELSE IF entries[i] = "bad" THEN [add |-> <<>>, done |-> FALSE]
    ELSE LET r == Extract(entries, i + 1)
         IN IF entries[i] = "server"
            THEN [add |-> <<[id |-> i]>> \o r.add, done |-> r.done]
            ELSE r

\* handle_response(response), lines 614-637, on the pair (api_servers,
\* api_captured).
HandleResponseOn(servers, captured, resp) ==
    IF captured \/ ~resp.match \/ resp.body.kind # "list"
    THEN [servers |-> servers, captured |-> captured]
    ELSE LET r == Extract(resp.body.entries, 1)
         IN [servers |-> servers \o r.add, captured |-> r.done]

\* ======================================== PanelBytte main: the state machine
VARIABLES
    pc,               \* position of main() in the cookie-session workflow
    browser,          \* "none", "open", "closed"
    context,          \* "none", "open", "closed"
    listening,        \* handle_response is registered on the page
    api_servers,      \* the inventory built by handle_response
    api_captured,     \* the flag that disarms handle_response
    navs,             \* navigations to the landing page so far
    current_url,      \* "none", "login" (an /auth/login address) or "home"
    idx,              \* 1-based position of the resource being processed
    server_result,    \* server_result and renew_result of that resource
    results,          \* the report lines
    final_screenshot, \* the evidence file attached to the last notification
    new_cookie_str,   \* the serialized rotation output
    secret,           \* what update_github_secret did
    notes,            \* the calls of notify_telegram, in order
    exit_status,      \* -1 while the process runs, then its exit status
    pend,             \* the status of a sys.exit() passing through finally
    exc,              \* the exception being handled
    escaped,          \* where an exception was raised outside the resource try
    raisedAt,         \* resources whose try block was left by an exception
    clickedAt,        \* resources on which a start/restart click was delivered
    cookie_jar,       \* the session's tokens as read back for the rotation
    artifact,         \* "none", "written", "partial": output/new_cookies.txt
    outbound          \* the requests sent to the secret store, in order

pbVars == <<pc, browser, context, listening, api_servers, api_captured,
            navs, current_url, idx, server_result, results, final_screenshot,
            new_cookie_str, secret, notes, exit_status, pend, exc, escaped,
            raisedAt, clickedAt, cookie_jar, artifact, outbound>>

VARIABLES
    d_pc,        \* position of main() / execute_account()
    d_accounts,  \* the parsed accounts
    d_i,         \* 1-based index of the account being processed
    d_results,   \* results of main()
    d_result,    \* result of the running execute_account()
    d_attempt,   \* attempt of the login-navigation loop
    d_log,       \* login-phase events of the current account, in order
    d_exc,       \* the exception being handled in execute_account
    d_escaping,  \* an exception is leaving execute_account through finally
    d_sess,      \* account the browser session is authenticated as (0: none)
    d_cmds,      \* directives submitted to the console, in order
    d_notes,     \* calls of send_telegram, in order
    d_browser,   \* "none", "open", "closed" (browser.close() was called)
    d_driver,    \* "none", "running", "stopped" (async_playwright context)
    d_exit       \* -1 while the process runs, then its exit status

doVars == <<d_pc, d_accounts, d_i, d_results, d_result, d_attempt, d_log,
            d_exc, d_escaping, d_sess, d_cmds, d_notes, d_browser, d_driver,
            d_exit>>

\* A harness for the pure functions: the input drawn for a call, the value
\* the call returned, and whether the call was made.
VARIABLES
    f_pc,   \* "call" before the function is applied, "done" after
    f_in,   \* the input of the call
    f_out   \* the value returned

fnVars == <<f_pc, f_in, f_out>>

\* server_result, lines 720-724, with renew_result["message"]
FreshResult ==
    [rneeded |-> FALSE, rdone |-> FALSE, wneeded |-> FALSE, wdone |-> FALSE,
     expiration |-> FALSE, message |-> ""]

NoShot == [tag |-> "none", i |-> 0]

Shot(tag, i) == [tag |-> tag, i |-> i]

\* One call notify_telegram(ok, stage, msg, screenshot_file).
Note(ok, stage, msg, shot) == [ok |-> ok, stage |-> stage, msg |-> msg, shot |-> shot]

InitPB ==
    /\ pc = "start"
    /\ browser = "none"
    /\ context = "none"
    /\ listening = FALSE
    /\ api_servers = <<>>
    /\ api_captured = FALSE
    /\ navs = 0
    /\ current_url = "none"
    /\ idx = 0
    /\ server_result = FreshResult
    /\ results = <<>>
    /\ final_screenshot = NoShot
    /\ new_cookie_str = <<>>
    /\ secret = "none"
    /\ notes = <<>>
    /\ exit_status = -1
    /\ pend = -1
    /\ exc = "none"
    /\ escaped = "none"
    /\ raisedAt = {}
    /\ clickedAt = {}
    /\ cookie_jar = [read |-> FALSE, names |-> <<>>]
    /\ artifact = "none"
    /\ outbound = <<>>

\* An exception raised at `where`, outside the per-resource try: control goes
\* to the outermost except clause (line 821).
RaiseTop(e, where) ==
    /\ pc' = "toperr"
    /\ exc' = e
    /\ escaped' = where

\* notify_telegram(False, stage, ...) followed by sys.exit(1) inside the try:
\* SystemExit is no Exception, so it passes the except clause and reaches
\* the finally clause.
FatalExit(stage, shot) ==
    /\ notes' = Append(notes, Note(FALSE, stage, <<>>, shot))
    /\ pend' = 1
    /\ pc' = "finally"

\* lines 555-562: read PANEL_BYTTE_COOKIES; unset or empty ends the process
\* with status 1 before any browser exists.
Start ==
    /\ pc = "start"
    /\ \E present \in BOOLEAN :
        IF present
        THEN /\ pc' = "launch"
             /\ UNCHANGED <<notes, exit_status>>
        ELSE /\ notes' = Append(notes, Note(FALSE, "init_failed", <<>>, NoShot))
             /\ exit_status' = 1
             /\ pc' = "exited"
    /\ UNCHANGED <<browser, context, listening, api_servers, api_captured,
                   navs, current_url, idx, server_result, results,
                   final_screenshot, new_cookie_str, secret, pend, exc, escaped,
                   raisedAt, clickedAt>>
    /\ UNCHANGED <<cookie_jar, artifact, outbound, doVars, fnVars>>

\* lines 566-642: browser, context and page are created and the response
\* listener is registered.
Launch ==
    /\ pc = "launch"
    /\ browser' = "open"
    /\ context' = "open"
    /\ listening' = TRUE
    /\ pc' = "inject"
    /\ UNCHANGED <<api_servers, api_captured, navs, current_url, idx,
                   server_result, results, final_screenshot, new_cookie_str,
                   secret, notes, exit_status, pend, exc, escaped, raisedAt,
                   clickedAt>>
    /\ UNCHANGED <<cookie_jar, artifact, outbound, doVars, fnVars>>

\* lines 645-654: parse the cookie string and inject the tokens.
InjectCookies ==
    /\ pc = "inject"
    /\ \E str \in CookieStrings, o \in CallOutcomes :
        IF ParseCookieString(str) = <<>>
        THEN /\ FatalExit("cookie_parse", NoShot)
             /\ UNCHANGED <<exc, escaped>>
        ELSE IF o = "ok"
             THEN /\ pc' = "landing"
                  /\ UNCHANGED <<notes, pend, exc, escaped>>
             ELSE /\ RaiseTop(o, "inject")
                  /\ UNCHANGED <<notes, pend>>
    /\ UNCHANGED <<browser, context, listening, api_servers, api_captured,
                   navs, current_url, idx, server_result, results,
                   final_screenshot, new_cookie_str, secret, exit_status,
                   raisedAt, clickedAt>>
    /\ UNCHANGED <<cookie_jar, artifact, outbound, doVars, fnVars>>

\* Responses the workflow meets: the inventory pages of an account with up to
\* MaxServers servers, and responses the handler ignores.
WorkflowResponses ==
    {r \in Responses : r.body.kind = "nodata" \/ Range(r.body.entries) \subseteq {"server"}}

\* handle_response called for one response while the landing page loads.
HandleResponse ==
    /\ pc = "landing"
    /\ listening
    /\ \E resp \in WorkflowResponses :
        LET r == HandleResponseOn(api_servers, api_captured, resp)
        IN /\ Len(r.servers) <= MaxServers
           /\ api_servers' = r.servers
           /\ api_captured' = r.captured
    /\ UNCHANGED <<pc, browser, context, listening, navs, current_url, idx,
                   server_result, results, final_screenshot, new_cookie_str,
                   secret, notes, exit_status, pend, exc, escaped, raisedAt,
                   clickedAt>>
    /\ UNCHANGED <<cookie_jar, artifact, outbound, doVars, fnVars>>

\* lines 656-664: the one navigation to the landing page, the settle wait and
\* the reads of the address and the title.
GotoLanding ==
    /\ pc = "landing"
    /\ navs' = navs + 1
    /\ \E o \in CallOutcomes, url \in {"login", "home"} :
        IF o = "ok"
        THEN /\ current_url' = url
             /\ pc' = "logincheck"
             /\ UNCHANGED <<exc, escaped>>
        ELSE /\ RaiseTop(o, "landing")
             /\ UNCHANGED current_url
    /\ UNCHANGED <<browser, context, listening, api_servers, api_captured,
                   idx, server_result, results, final_screenshot, new_cookie_str,
                   secret, notes, exit_status, pend, raisedAt, clickedAt>>
    /\ UNCHANGED <<cookie_jar, artifact, outbound, doVars, fnVars>>

\* lines 666-677: a landing address on the login surface is fatal (evidence,
\* notification, sys.exit(1)); otherwise the response listener is removed.
CheckLogin ==
    /\ pc = "logincheck"
    /\ IF current_url = "login"
       THEN \E o \in CallOutcomes :
              IF o = "ok"
              THEN /\ FatalExit("login_check", Shot("01-need-login", 0))
                   /\ UNCHANGED <<exc, escaped>>
              ELSE /\ RaiseTop(o, "logincheck")
                   /\ UNCHANGED <<notes, pend>>
       ELSE /\ pc' = "dashboard"
            /\ UNCHANGED <<notes, pend, exc, escaped>>
    /\ listening' = (listening /\ current_url = "login")
    /\ UNCHANGED <<browser, context, api_servers, api_captured, navs,
                   current_url, idx, server_result, results, final_screenshot,
                   new_cookie_str, secret, exit_status, raisedAt, clickedAt>>
    /\ UNCHANGED <<cookie_jar, artifact, outbound, doVars, fnVars>>

\* lines 679-692: the announcement popup is dismissed best-effort and the
\* dashboard evidence is captured.
Dashboard ==
    /\ pc = "dashboard"
    /\ \E o \in CallOutcomes :
        IF o = "ok"
        THEN /\ final_screenshot' = Shot("02-dashboard", 0)
             /\ pc' = "servers"
             /\ UNCHANGED <<exc, escaped>>
        ELSE /\ RaiseTop(o, "dashboard")
             /\ UNCHANGED final_screenshot
    /\ UNCHANGED <<browser, context, listening, api_servers, api_captured,
                   navs, current_url, idx, server_result, results,
                   new_cookie_str, secret, notes, exit_status, pend, raisedAt,
                   clickedAt>>
    /\ UNCHANGED <<cookie_jar, artifact, outbound, doVars, fnVars>>

\* lines 694-707: an empty inventory is fatal; otherwise the loop starts.
ServersCheck ==
    /\ pc = "servers"
    /\ IF api_servers = <<>>
       THEN /\ \E o \in CallOutcomes :
                IF o = "ok"
                THEN /\ FatalExit("get_servers", Shot("03-no-servers", 0))
                     /\ UNCHANGED <<exc, escaped>>
                ELSE /\ RaiseTop(o, "servers")
                     /\ UNCHANGED <<notes, pend>>
            /\ UNCHANGED <<idx, results>>
       ELSE /\ results' = <<>>
            /\ idx' = 1
            /\ pc' = "res_console"
            /\ UNCHANGED <<notes, pend, exc, escaped>>
    /\ UNCHANGED <<browser, context, listening, api_servers, api_captured,
                   navs, current_url, server_result, final_screenshot,
                   new_cookie_str, secret, exit_status, raisedAt, clickedAt>>
    /\ UNCHANGED <<cookie_jar, artifact, outbound, doVars, fnVars>>

\* An exception raised inside the per-resource try (lines 726-790): control
\* goes to the except clauses of lines 792-798.
RaiseInResource(e) ==
    /\ pc' = "res_catch"
    /\ exc' = e
    /\ raisedAt' = raisedAt \cup {idx}

\* lines 710-734: the resource's result is initialised, its console page is
\* opened, the settle wait passes and the console evidence is captured.
ResConsole ==
    /\ pc = "res_console"
    /\ server_result' = FreshResult
    /\ \E o \in CallOutcomes :
        IF o = "ok"
        THEN /\ pc' = "res_inspect"
             /\ UNCHANGED <<exc, raisedAt>>
        ELSE RaiseInResource(o)
    /\ UNCHANGED <<browser, context, listening, api_servers, api_captured,
                   navs, current_url, idx, results, final_screenshot,
                   new_cookie_str, secret, notes, exit_status, pend, escaped,
                   clickedAt>>
    /\ UNCHANGED <<cookie_jar, artifact, outbound, doVars, fnVars>>

\* lines 736-745: check_need_restart, and when it says so do_restart and the
\* after-restart evidence.
ResInspect ==
    /\ pc = "res_inspect"
    /\ \E pg \in ConsolePages, f1 \in CheckFaults :
        IF ~CheckNeedRestart(pg, f1).ret
        THEN /\ server_result' = [server_result EXCEPT !.rneeded = FALSE]
             /\ pc' = "res_settings"
             /\ UNCHANGED <<final_screenshot, exc, raisedAt, clickedAt>>
        ELSE \E f2 \in RestartFaults, o \in CallOutcomes :
               LET r == DoRestart(pg, f2)
               IN /\ server_result' =
                         [server_result EXCEPT !.rneeded = TRUE, !.rdone = r.ret]
                  /\ clickedAt' = IF r.clicked # "none"
                                  THEN clickedAt \cup {idx} ELSE clickedAt
                  /\ IF o = "ok"
                     THEN /\ final_screenshot' = Shot("05-after-restart", idx)
                          /\ pc' = "res_settings"
                          /\ UNCHANGED <<exc, raisedAt>>
                     ELSE /\ RaiseInResource(o)
                          /\ UNCHANGED final_screenshot
    /\ UNCHANGED <<browser, context, listening, api_servers, api_captured,
                   navs, current_url, idx, results, new_cookie_str, secret,
                   notes, exit_status, pend, escaped>>
    /\ UNCHANGED <<cookie_jar, artifact, outbound, doVars, fnVars>>

\* lines 747-756: the settings page is opened and its evidence captured.
ResSettings ==
    /\ pc = "res_settings"
    /\ \E o \in CallOutcomes :
        IF o = "ok"
        THEN /\ final_screenshot' = Shot("06-settings", idx)
             /\ pc' = "res_renew"
             /\ UNCHANGED <<exc, raisedAt>>
        ELSE /\ RaiseInResource(o)
             /\ UNCHANGED final_screenshot
    /\ UNCHANGED <<browser, context, listening, api_servers, api_captured,
                   navs, current_url, idx, server_result, results,
                   new_cookie_str, secret, notes, exit_status, pend, escaped,
                   clickedAt>>
    /\ UNCHANGED <<cookie_jar, artifact, outbound, doVars, fnVars>>

\* Settings pages the workflow meets: a free and a paid label, with and
\* without a renewal control and a visible confirmation control.
L_free == <<"R", " ", "-", " ", "0", ".", "0", "0">>
L_paid == <<"R", " ", "-", " ", "4", ".", "4">>
L_ten == <<"R", " ", "-", " ", "4", "0", ".", "0", "0", " ", "R">>
ConfirmNone == [i \in 1..ConfirmSelectors |-> "absent"]
ConfirmFirst == [i \in 1..ConfirmSelectors |-> IF i = 1 THEN "visible" ELSE "absent"]

WorkflowSettingsPages ==
    {SettingsPageOf(TRUE, TRUE, b, l, c) :
        b \in BOOLEAN, l \in {L_free, L_paid},
        c \in {ConfirmNone, ConfirmFirst}}

\* lines 758-766: check_and_renew, and after a completed renewal its evidence.
ResRenew ==
    /\ pc = "res_renew"
    /\ \E pg \in WorkflowSettingsPages, f \in RenewFaults :
        LET r == CheckAndRenew(pg, f)
        IN /\ server_result' =
                  [server_result EXCEPT !.wneeded = r.need_renew,
                                        !.wdone = r.renewed,
                                        !.expiration = r.expiration,
                                        !.message = r.message]
           /\ IF r.renewed
              THEN \E o \in CallOutcomes :
                     IF o = "ok"
                     THEN /\ final_screenshot' = Shot("07-after-renew", idx)
                          /\ pc' = "res_summary"
                          /\ UNCHANGED <<exc, raisedAt>>
                     ELSE /\ RaiseInResource(o)
                          /\ UNCHANGED final_screenshot
              ELSE /\ pc' = "res_summary"
                   /\ UNCHANGED <<final_screenshot, exc, raisedAt>>
    /\ UNCHANGED <<browser, context, listening, api_servers, api_captured,
                   navs, current_url, idx, results, new_cookie_str, secret,
                   notes, exit_status, pend, escaped, clickedAt>>
    /\ UNCHANGED <<cookie_jar, artifact, outbound, doVars, fnVars>>

\* The report line of a resource whose try block ran to its end (lines 768-790).
SummaryLine(srv, sr) ==
    [srv |-> srv.id,
     kind |-> "ok",
     restart |-> IF sr.rneeded
                 THEN (IF sr.rdone THEN "restart_ok" ELSE "restart_failed")
                 ELSE "running",
     renew |-> IF sr.wneeded
               THEN (IF sr.wdone THEN "renew_ok" ELSE "renew_failed")
               ELSE (IF sr.message # "" THEN sr.message ELSE "none"),
     expiration |-> sr.expiration]

\* The report line of a resource whose try block was left by exception e
\* (lines 792-798): the timeout line or the line with the truncated error.
FailureLine(srv, e) ==
    [srv |-> srv.id, kind |-> e, restart |-> "absent", renew |-> "absent",
     expiration |-> FALSE]

\* lines 768-790: the summary line is appended.
ResSummary ==
    /\ pc = "res_summary"
    /\ results' = Append(results, SummaryLine(api_servers[idx], server_result))
    /\ pc' = "res_settle"
    /\ UNCHANGED <<browser, context, listening, api_servers, api_captured,
                   navs, current_url, idx, server_result, final_screenshot,
                   new_cookie_str, secret, notes, exit_status, pend, exc,
                   escaped, raisedAt, clickedAt>>
    /\ UNCHANGED <<cookie_jar, artifact, outbound, doVars, fnVars>>

\* A handler that records the failure and then leaves the loop.
ResCatchMutBreak ==
    /\ pc = "res_catch"
    /\ results' = Append(results, [srv |-> api_servers[idx].id, kind |-> exc,
                                   restart |-> "absent", renew |-> "absent",
                                   expiration |-> FALSE])
    /\ exc' = "none"
    /\ pc' = "rotate"
    /\ UNCHANGED <<browser, context, listening, api_servers, api_captured,
                   navs, current_url, idx, server_result, final_screenshot,
                   new_cookie_str, secret, notes, exit_status, pend, escaped,
                   raisedAt, clickedAt>>
    /\ UNCHANGED <<cookie_jar, artifact, outbound, doVars, fnVars>>

\* A handler that loses the failing resource's line.
ResCatchMutNoLine ==
    /\ pc = "res_catch"
    /\ exc' = "none"
    /\ pc' = "res_settle"
    /\ UNCHANGED <<browser, context, listening, api_servers, api_captured,
                   navs, current_url, idx, server_result, results,
                   final_screenshot, new_cookie_str, secret, notes, exit_status,
                   pend, escaped, raisedAt, clickedAt>>
    /\ UNCHANGED <<cookie_jar, artifact, outbound, doVars, fnVars>>

\* lines 792-798: the except clauses at the resource boundary.
ResCatch ==
    /\ pc = "res_catch"
    /\ results' = Append(results, FailureLine(api_servers[idx], exc))
    /\ exc' = "none"
    /\ pc' = "res_settle"
    /\ UNCHANGED <<browser, context, listening, api_servers, api_captured,
                   navs, current_url, idx, server_result, final_screenshot,
                   new_cookie_str, secret, notes, exit_status, pend, escaped,
                   raisedAt, clickedAt>>
    /\ UNCHANGED <<cookie_jar, artifact, outbound, doVars, fnVars>>

\* line 800 and the loop header: the wait between resources, outside the
\* per-resource try, then the next resource or the end of the loop.
ResSettle ==
    /\ pc = "res_settle"
    /\ \E o \in CallOutcomes :
        IF o = "ok"
        THEN /\ IF idx < Len(api_servers)
                THEN /\ idx' = idx + 1
                     /\ pc' = "res_console"
                ELSE /\ pc' = "rotate"
                     /\ UNCHANGED idx
             /\ UNCHANGED <<exc, escaped>>
        ELSE /\ RaiseTop(o, "settle")
             /\ UNCHANGED idx
    /\ UNCHANGED <<browser, context, listening, api_servers, api_captured,
                   navs, current_url, server_result, results, final_screenshot,
                   new_cookie_str, secret, notes, exit_status, pend, raisedAt,
                   clickedAt>>
    /\ UNCHANGED <<cookie_jar, artifact, outbound, doVars, fnVars>>

\* What update_github_secret meets: whether REPO_TOKEN and GITHUB_REPOSITORY
\* are set, whether PyNaCl can be imported, and how the request for the public
\* key and the request that stores the secret end ("error" is also the bad
\* status of raise_for_status and a response that cannot be used).
SecretEnvs == [token : BOOLEAN, repo : BOOLEAN, lib : BOOLEAN,
               get : CallOutcomes, put : CallOutcomes]

\* A variant that asks for the public key before it looks at the environment.
UpdateGithubSecretMutEager(e) ==
    IF e.get # "ok"
    THEN [ret |-> FALSE, outcome |-> "failed", requests |-> <<"get_key">>]
    ELSE IF ~e.token
    THEN [ret |-> FALSE, outcome |-> "skipped_no_token", requests |-> <<"get_key">>]
    ELSE IF ~e.repo
    THEN [ret |-> FALSE, outcome |-> "skipped_no_repo", requests |-> <<"get_key">>]
    ELSE IF e.put # "ok"
    THEN [ret |-> FALSE, outcome |-> "failed",
          requests |-> <<"get_key", "put_secret">>]
    ELSE [ret |-> TRUE, outcome |-> "updated",
          requests |-> <<"get_key", "put_secret">>]

\* update_github_secret, lines 222-273: the returned bool, what happened, and
\* the requests that were sent.
UpdateGithubSecret(e) ==
    IF ~e.token
    THEN [ret |-> FALSE, outcome |-> "skipped_no_token", requests |-> <<>>]
    ELSE IF ~e.repo
    THEN [ret |-> FALSE, outcome |-> "skipped_no_repo", requests |-> <<>>]
    ELSE IF ~e.lib
    THEN [ret |-> FALSE, outcome |-> "failed", requests |-> <<>>]
    ELSE IF e.get # "ok"
    THEN [ret |-> FALSE, outcome |-> "failed", requests |-> <<"get_key">>]
    ELSE IF e.put # "ok"
    THEN [ret |-> FALSE, outcome |-> "failed",
          requests |-> <<"get_key", "put_secret">>]
    ELSE [ret |-> TRUE, outcome |-> "updated",
          requests |-> <<"get_key", "put_secret">>]

\* What one call of update_github_secret can come to.
SecretCalls == {UpdateGithubSecret(e) : e \in SecretEnvs}

\* lines 802-809: the session's tokens are read back, filtered, sorted and
\* written; a non-empty string is handed to the secret store.
Rotate ==
    /\ pc = "rotate"
    /\ \E o \in CallOutcomes :
        IF o # "ok"
        THEN /\ RaiseTop(o, "rotate_read")
             /\ UNCHANGED <<new_cookie_str, secret, cookie_jar, artifact,
                            outbound>>
        ELSE \E jar \in Jars :
          /\ cookie_jar' = [read |-> TRUE, names |-> jar]
          /\ IF SaveCookiesForUpdate(jar) = <<>>
             THEN /\ new_cookie_str' = <<>>
                  /\ secret' = "not_called"
                  /\ pc' = "report"
                  /\ UNCHANGED <<exc, escaped, artifact, outbound>>
             ELSE \E w \in CallOutcomes :
               IF w # "ok"
               THEN /\ RaiseTop(w, "rotate_write")
                    /\ artifact' \in {"none", "partial"}
                    /\ UNCHANGED <<new_cookie_str, secret, outbound>>
               ELSE \E r \in SecretCalls :
                      /\ new_cookie_str' = SaveCookiesForUpdate(jar)
                      /\ artifact' = "written"
                      /\ secret' = r.outcome
                      /\ outbound' = r.requests
                      /\ pc' = "report"
                      /\ UNCHANGED <<exc, escaped>>
    /\ UNCHANGED <<browser, context, listening, api_servers, api_captured,
                   navs, current_url, idx, server_result, results,
                   final_screenshot, notes, exit_status, pend, raisedAt,
                   clickedAt>>
    /\ UNCHANGED <<doVars, fnVars>>

\* lines 811-819: the final report and sys.exit(0).
Report ==
    /\ pc = "report"
    /\ notes' = Append(notes, Note(TRUE, "all_done", results, final_screenshot))
    /\ pend' = 0
    /\ pc' = "finally"
    /\ UNCHANGED <<browser, context, listening, api_servers, api_captured,
                   navs, current_url, idx, server_result, results,
                   final_screenshot, new_cookie_str, secret, exit_status, exc,
                   escaped, raisedAt, clickedAt>>
    /\ UNCHANGED <<cookie_jar, artifact, outbound, doVars, fnVars>>

\* A handler whose notification depends on the error evidence: when the
\* capture fails nothing is sent.
TopErrMutNeedsEvidence ==
    /\ pc = "toperr"
    /\ \E o \in CallOutcomes :
        /\ final_screenshot' = IF o = "ok" THEN Shot("99-error", 0)
                               ELSE final_screenshot
        /\ notes' = IF o = "ok"
                    THEN Append(notes,
                                Note(FALSE, "script_error", <<>>, final_screenshot'))
                    ELSE notes
    /\ exc' = "none"
    /\ pend' = 1
    /\ pc' = "finally"
    /\ UNCHANGED <<browser, context, listening, api_servers, api_captured,
                   navs, current_url, idx, server_result, results,
                   new_cookie_str, secret, exit_status, escaped, raisedAt,
                   clickedAt>>
    /\ UNCHANGED <<cookie_jar, artifact, outbound, doVars, fnVars>>

\* A handler that reports the failure but ends the process with status 0.
TopErrMutExitZero ==
    /\ pc = "toperr"
    /\ notes' = Append(notes, Note(FALSE, "script_error", <<>>, final_screenshot))
    /\ exc' = "none"
    /\ pend' = 0
    /\ pc' = "finally"
    /\ UNCHANGED <<browser, context, listening, api_servers, api_captured,
                   navs, current_url, idx, server_result, results,
                   final_screenshot, new_cookie_str, secret, exit_status,
                   escaped, raisedAt, clickedAt>>
    /\ UNCHANGED <<cookie_jar, artifact, outbound, doVars, fnVars>>

\* lines 821-839: the outermost except clause: best-effort error evidence,
\* the failure notification and sys.exit(1).
TopErr ==
    /\ pc = "toperr"
    /\ \E o \in CallOutcomes :
        /\ final_screenshot' = IF o = "ok" THEN Shot("99-error", 0)
                               ELSE final_screenshot
        /\ notes' = Append(notes,
                           Note(FALSE, "script_error", <<>>, final_screenshot'))
    /\ exc' = "none"
    /\ pend' = 1
    /\ pc' = "finally"
    /\ UNCHANGED <<browser, context, listening, api_servers, api_captured,
                   navs, current_url, idx, server_result, results,
                   new_cookie_str, secret, exit_status, escaped, raisedAt,
                   clickedAt>>
    /\ UNCHANGED <<cookie_jar, artifact, outbound, doVars, fnVars>>

\* An exit that leaves the process without running the finally clause.
FinallyMutSkip ==
    /\ pc = "finally"
    /\ exit_status' = pend
    /\ pc' = "exited"
    /\ UNCHANGED <<browser, context, listening, api_servers, api_captured,
                   navs, current_url, idx, server_result, results,
                   final_screenshot, new_cookie_str, secret, notes, pend, exc,
                   escaped, raisedAt, clickedAt>>
    /\ UNCHANGED <<cookie_jar, artifact, outbound, doVars, fnVars>>

\* lines 841-844: the finally clause closes the context and the browser; then
\* the pending SystemExit ends the process with its status.
Finally ==
    /\ pc = "finally"
    /\ context' = "closed"
    /\ browser' = "closed"
    /\ exit_status' = pend
    /\ pc' = "exited"
    /\ UNCHANGED <<listening, api_servers, api_captured, navs,
                   current_url, idx, server_result, results, final_screenshot,
                   new_cookie_str, secret, notes, pend, exc, escaped, raisedAt,
                   clickedAt>>
    /\ UNCHANGED <<cookie_jar, artifact, outbound, doVars, fnVars>>


\* ============================================================ DataOnline ==
\* A line of the DATA_ACCOUNT text after line.strip(), as the list of fields
\* that line.split("----") yields; the empty line is the one empty field.
LineEmpty == <<"">>
LineTwo == <<"u0", "p">>
LineThree == <<"u1", "p", "c">>
LineFour == <<"u2", "p", "c", "x">>

BatchLines == {LineEmpty, LineTwo, LineThree, LineFour}

\* The texts of DATA_ACCOUNT: at least one line (an unset variable reads as
\* the single empty line).
Batches == SeqsUpTo(BatchLines, MaxLines) \ {<<>>}

RECURSIVE ParseLines(_)
\* parse_accounts, lines 28-39, on the lines of the text
ParseLines(lines) ==
    IF lines = <<>> THEN <<>>
    ELSE LET parts == Head(lines)
         IN IF parts = LineEmpty THEN ParseLines(Tail(lines))
            ELSE IF Len(parts) >= 3
                 THEN <<[username |-> parts[1], password |-> parts[2],
                         command |-> parts[3]]>> \o ParseLines(Tail(lines))
                 ELSE ParseLines(Tail(lines))

NoAccountResult == [account |-> "", success |-> FALSE, message |-> ""]

InitDO ==
    /\ d_pc = "start"
    /\ d_accounts = <<>>
    /\ d_i = 0
    /\ d_results = <<>>
    /\ d_result = NoAccountResult
    /\ d_attempt = 0
    /\ d_log = <<>>
    /\ d_exc = "none"
    /\ d_escaping = FALSE
    /\ d_sess = 0
    /\ d_cmds = <<>>
    /\ d_notes = <<>>
    /\ d_browser = "none"
    /\ d_driver = "none"
    /\ d_exit = -1

\* An exception raised inside the try of execute_account (lines 68-162).
DRaise(e) ==
    /\ d_pc' = "catch"
    /\ d_exc' = e

\* lines 188-196: parse the batch; with no account main() returns at once and
\* the process ends normally.
DStart ==
    /\ d_pc = "start"
    /\ \E raw \in Batches :
        /\ d_accounts' = ParseLines(raw)
        /\ IF ParseLines(raw) = <<>>
           THEN /\ d_pc' = "exited"
                /\ d_exit' = 0
           ELSE /\ d_pc' = "launch"
                /\ UNCHANGED d_exit
    /\ UNCHANGED <<d_i, d_results, d_result, d_attempt, d_log, d_exc,
                   d_escaping, d_sess, d_cmds, d_notes, d_browser, d_driver>>
    /\ UNCHANGED <<pbVars, fnVars>>

\* lines 198-209: the driver is started, one browser, context and page are
\* created for the whole batch, and the loop over the accounts starts.
DLaunch ==
    /\ d_pc = "launch"
    /\ d_driver' = "running"
    /\ d_browser' = "open"
    /\ d_i' = 1
    /\ d_pc' = "acct_begin"
    /\ UNCHANGED <<d_accounts, d_results, d_result, d_attempt, d_log, d_exc,
                   d_escaping, d_sess, d_cmds, d_notes, d_exit>>
    /\ UNCHANGED <<pbVars, fnVars>>

\* lines 64-75: execute_account starts: the result record with the masked
\* identity, and the first attempt of the navigation loop.
DBegin ==
    /\ d_pc = "acct_begin"
    /\ d_result' = [account |-> d_accounts[d_i].username, success |-> FALSE,
                    message |-> ""]
    /\ d_attempt' = 1
    /\ d_log' = <<>>
    /\ d_pc' = "nav"
    /\ UNCHANGED <<d_accounts, d_i, d_results, d_exc, d_escaping, d_sess,
                   d_cmds, d_notes, d_browser, d_driver, d_exit>>
    /\ UNCHANGED <<pbVars, fnVars>>

\* An off-by-one in the test of the last attempt.
LastAttemptMutOffByOne(attempt) == attempt = MAX_RETRIES + 1

\* line 82: attempt == MAX_RETRIES
LastAttempt(attempt) == attempt = MAX_RETRIES

\* lines 75-83: one attempt to open the login page.
DNav ==
    /\ d_pc = "nav"
    /\ \E o \in CallOutcomes :
        IF o = "ok"
        THEN /\ d_log' = Append(d_log, "nav_ok")
             /\ d_pc' = "form"
             /\ UNCHANGED d_exc
        ELSE /\ d_log' = Append(d_log, "nav_fail")
             /\ IF LastAttempt(d_attempt)
                THEN DRaise("nav_failed")
                ELSE /\ d_pc' = "nav_sleep"
                     /\ UNCHANGED d_exc
    /\ UNCHANGED <<d_accounts, d_i, d_results, d_result, d_attempt, d_escaping,
                   d_sess, d_cmds, d_notes, d_browser, d_driver, d_exit>>
    /\ UNCHANGED <<pbVars, fnVars>>

\* line 84 and the loop header: the fixed delay, then the next attempt.
DNavSleep ==
    /\ d_pc = "nav_sleep"
    /\ d_log' = Append(d_log, "sleep")
    /\ d_attempt' = d_attempt + 1
    /\ d_pc' = "nav"
    /\ UNCHANGED <<d_accounts, d_i, d_results, d_result, d_exc, d_escaping,
                   d_sess, d_cmds, d_notes, d_browser, d_driver, d_exit>>
    /\ UNCHANGED <<pbVars, fnVars>>

\* lines 86-119: wait for the form, fill in identity and secret, click the
\* submit control, wait for the response.
DForm ==
    /\ d_pc = "form"
    /\ \E o \in CallOutcomes :
        IF o = "ok"
        THEN /\ d_log' = Append(d_log, "submit")
             /\ d_pc' = "confirm"
             /\ UNCHANGED d_exc
        ELSE /\ DRaise("driver")
             /\ UNCHANGED d_log
    /\ UNCHANGED <<d_accounts, d_i, d_results, d_result, d_attempt, d_escaping,
                   d_sess, d_cmds, d_notes, d_browser, d_driver, d_exit>>
    /\ UNCHANGED <<pbVars, fnVars>>

\* A variant of the login check that does not look at the address.
DConfirmMutNoCheck ==
    /\ d_pc = "confirm"
    /\ d_pc' = "console"
    /\ UNCHANGED <<d_accounts, d_i, d_results, d_result, d_attempt, d_escaping,
                   d_cmds, d_notes, d_browser, d_driver, d_exit, d_log, d_exc,
                   d_sess>>
    /\ UNCHANGED <<pbVars, fnVars>>

\* lines 121-129: an address that still names the login surface is a
\* rejection: the inline error text when there is one, else the generic text.
DConfirm ==
    /\ d_pc = "confirm"
    /\ \E url \in {"login", "other"}, errElem \in BOOLEAN :
        IF url = "login"
        THEN /\ d_log' = Append(d_log, "rejected")
             /\ DRaise(IF errElem THEN "rejected_text" ELSE "rejected")
             /\ UNCHANGED d_sess
        ELSE /\ d_sess' = d_i
             /\ d_log' = Append(d_log, "login_ok")
             /\ d_pc' = "console"
             /\ UNCHANGED d_exc
    /\ UNCHANGED <<d_accounts, d_i, d_results, d_result, d_attempt, d_escaping,
                   d_cmds, d_notes, d_browser, d_driver, d_exit>>
    /\ UNCHANGED <<pbVars, fnVars>>

\* lines 131-136: open the console page.
DConsole ==
    /\ d_pc = "console"
    /\ \E o \in CallOutcomes :
        IF o = "ok"
        THEN /\ d_pc' = "command"
             /\ UNCHANGED d_exc
        ELSE DRaise("driver")
    /\ UNCHANGED <<d_accounts, d_i, d_results, d_result, d_attempt, d_log,
                   d_escaping, d_sess, d_cmds, d_notes, d_browser, d_driver,
                   d_exit>>
    /\ UNCHANGED <<pbVars, fnVars>>

\* lines 138-155: the directive goes to the first input control that exists,
\* else to the keyboard; a driver call that raises may or may not have
\* delivered it.
DCommand ==
    /\ d_pc = "command"
    /\ \E via \in {"input", "keyboard"}, o \in CallOutcomes, sent \in BOOLEAN :
        /\ d_cmds' = IF o = "ok" \/ sent
                     THEN Append(d_cmds, [account |-> d_i, via |-> via,
                                          session |-> d_sess])
                     ELSE d_cmds
        /\ IF o = "ok"
           THEN /\ d_pc' = "evidence"
                /\ UNCHANGED d_exc
           ELSE DRaise("driver")
    /\ UNCHANGED <<d_accounts, d_i, d_results, d_result, d_attempt, d_log,
                   d_escaping, d_sess, d_notes, d_browser, d_driver, d_exit>>
    /\ UNCHANGED <<pbVars, fnVars>>

\* line 156: the evidence of the console.
DEvidence ==
    /\ d_pc = "evidence"
    /\ \E o \in CallOutcomes :
        IF o = "ok"
        THEN /\ d_pc' = "succeed"
             /\ UNCHANGED d_exc
        ELSE DRaise("driver")
    /\ UNCHANGED <<d_accounts, d_i, d_results, d_result, d_attempt, d_log,
                   d_escaping, d_sess, d_cmds, d_notes, d_browser, d_driver,
                   d_exit>>
    /\ UNCHANGED <<pbVars, fnVars>>

\* lines 158-162: the result is marked successful and the success message is
\* sent (send_telegram swallows every failure).
DSucceed ==
    /\ d_pc = "succeed"
    /\ d_result' = [d_result EXCEPT !.success = TRUE, !.message = "ok"]
    /\ d_notes' = Append(d_notes, [ok |-> TRUE, account |-> d_i])
    /\ d_pc' = "logout"
    /\ UNCHANGED <<d_accounts, d_i, d_results, d_attempt, d_log, d_exc,
                   d_escaping, d_sess, d_cmds, d_browser, d_driver, d_exit>>
    /\ UNCHANGED <<pbVars, fnVars>>

\* lines 164-171: the except clause: the scrubbed message is recorded, the
\* error evidence is captured and the failure message is sent. An exception
\* of the capture leaves execute_account (after its finally clause).
DCatch ==
    /\ d_pc = "catch"
    /\ d_result' = [d_result EXCEPT !.message = d_exc]
    /\ \E o \in CallOutcomes :
        IF o = "ok"
        THEN /\ d_notes' = Append(d_notes, [ok |-> FALSE, account |-> d_i])
             /\ d_exc' = "none"
             /\ UNCHANGED d_escaping
        ELSE /\ d_escaping' = TRUE
             /\ d_exc' = "driver"
             /\ UNCHANGED d_notes
    /\ d_pc' = "logout"
    /\ UNCHANGED <<d_accounts, d_i, d_results, d_attempt, d_log, d_sess,
                   d_cmds, d_browser, d_driver, d_exit>>
    /\ UNCHANGED <<pbVars, fnVars>>

\* lines 173-185 and 210-211: the finally clause tries to log out (every
\* failure of it is swallowed); then either the pending exception goes on to
\* main(), or the result is returned, appended, and the loop goes on.
DLogout ==
    /\ d_pc = "logout"
    /\ \E clicked \in BOOLEAN :
        d_sess' = IF clicked THEN 0 ELSE d_sess
    /\ IF d_escaping
       THEN /\ d_pc' = "crash"
            /\ UNCHANGED <<d_results, d_i>>
       ELSE /\ d_results' = Append(d_results, d_result)
            /\ IF d_i < Len(d_accounts)
               THEN /\ d_i' = d_i + 1
                    /\ d_pc' = "acct_begin"
               ELSE /\ d_pc' = "close"
                    /\ UNCHANGED d_i
    /\ UNCHANGED <<d_accounts, d_result, d_attempt, d_log, d_exc, d_escaping,
                   d_cmds, d_notes, d_browser, d_driver, d_exit>>
    /\ UNCHANGED <<pbVars, fnVars>>

\* An exception that left execute_account ends main(): the async_playwright
\* context stops the driver, browser.close() (line 214) is not reached, and
\* asyncio.run re-raises: the interpreter exits with status 1.
DCrash ==
    /\ d_pc = "crash"
    /\ d_driver' = "stopped"
    /\ d_exit' = 1
    /\ d_pc' = "exited"
    /\ UNCHANGED <<d_accounts, d_i, d_results, d_result, d_attempt, d_log,
                   d_exc, d_escaping, d_sess, d_cmds, d_notes, d_browser>>
    /\ UNCHANGED <<pbVars, fnVars>>

\* line 214: browser.close() after the loop.
DClose ==
    /\ d_pc = "close"
    /\ d_browser' = "closed"
    /\ d_driver' = "stopped"
    /\ d_pc' = "summary"
    /\ UNCHANGED <<d_accounts, d_i, d_results, d_result, d_attempt, d_log,
                   d_exc, d_escaping, d_sess, d_cmds, d_notes, d_exit>>
    /\ UNCHANGED <<pbVars, fnVars>>

\* lines 216-227: the summary is logged and main() returns.
DSummary ==
    /\ d_pc = "summary"
    /\ d_exit' = 0
    /\ d_pc' = "exited"
    /\ UNCHANGED <<d_accounts, d_i, d_results, d_result, d_attempt, d_log,
                   d_exc, d_escaping, d_sess, d_cmds, d_notes, d_browser,
                   d_driver>>
    /\ UNCHANGED <<pbVars, fnVars>>

NextPB ==
    \/ Start
    \/ Launch
    \/ InjectCookies
    \/ HandleResponse
    \/ GotoLanding
    \/ CheckLogin
    \/ Dashboard
    \/ ServersCheck
    \/ ResConsole
    \/ ResInspect
    \/ ResSettings
    \/ ResRenew
    \/ ResSummary
    \/ ResCatch
    \/ ResSettle
    \/ Rotate
    \/ Report
    \/ TopErr
    \/ Finally

vars == <<pbVars, doVars, fnVars>>

\* No function call is under way.
InitFn ==
    /\ f_pc = "idle"
    /\ f_in = <<>>
    /\ f_out = <<>>

\* The cookie-session workflow (PanelBytte_Restart.py).
Init == InitPB /\ InitDO /\ InitFn

Next == NextPB

Spec == Init /\ [][Next]_vars

NextDO ==
    \/ DStart
    \/ DLaunch
    \/ DBegin
    \/ DNav
    \/ DNavSleep
    \/ DForm
    \/ DConfirm
    \/ DConsole
    \/ DCommand
    \/ DEvidence
    \/ DSucceed
    \/ DCatch
    \/ DLogout
    \/ DCrash
    \/ DClose
    \/ DSummary

\* The multi-account workflow (DataOnline_Restart.py).
SpecDO == Init /\ [][NextDO]_vars

\* The sequential program always takes its next step.
SpecFair == Init /\ [][Next]_vars /\ WF_vars(Next)

\* ------------------------------------------------ check_need_restart alone
InitInspect ==
    /\ InitPB
    /\ InitDO
    /\ f_pc = "call"
    /\ f_in \in [pg : ConsolePages, fault : CheckFaults]
    /\ f_out = <<>>

\* One call check_need_restart(page).
CallCheckNeedRestart ==
    /\ f_pc = "call"
    /\ f_out' = CheckNeedRestart(f_in.pg, f_in.fault)
    /\ f_pc' = "done"
    /\ UNCHANGED <<f_in, pbVars, doVars>>

SpecInspect == InitInspect /\ [][CallCheckNeedRestart]_vars

\* --------------------------------------------------- check_and_renew alone
\* The labels the call is tried on: every short label and three long ones.
RenewLabels == Labels \cup {L_free, L_paid, L_ten}

InitRenew ==
    /\ InitPB
    /\ InitDO
    /\ f_pc = "call"
    /\ f_in \in [label : RenewLabels, confirm : {ConfirmNone, ConfirmFirst}]
    /\ f_out = <<>>

\* One call check_and_renew(page) on a settings page with a renewal control.
CallCheckAndRenew ==
    /\ f_pc = "call"
    /\ f_out' = CheckAndRenew(
                    SettingsPageOf(TRUE, TRUE, TRUE, f_in.label, f_in.confirm),
                    NoFault)
    /\ f_pc' = "done"
    /\ UNCHANGED <<f_in, pbVars, doVars>>

SpecRenew == InitRenew /\ [][CallCheckAndRenew]_vars

\* ------------------------------------ check_and_renew and the report line
\* States of the confirmation candidates, one per selector.
ConfirmPages == [1..ConfirmSelectors -> CandStates]

InitHandshake ==
    /\ InitPB
    /\ InitDO
    /\ f_pc = "call"
    /\ f_in \in [btn : BOOLEAN, label : {L_free, L_paid},
                 confirm : ConfirmPages, fault : RenewFaults]
    /\ f_out = <<>>

\* lines 758-790 for one resource: check_and_renew(page), the copy of its
\* fields into server_result, and the resource's report line.
CallRenewAndSummarise ==
    /\ f_pc = "call"
    /\ LET r == CheckAndRenew(
                    SettingsPageOf(TRUE, TRUE, f_in.btn, f_in.label, f_in.confirm),
                    f_in.fault)
           sr == [FreshResult EXCEPT !.wneeded = r.need_renew,
                                     !.wdone = r.renewed,
                                     !.expiration = r.expiration,
                                     !.message = r.message]
       IN f_out' = [res |-> r, line |-> SummaryLine([id |-> "s1"], sr)]
    /\ f_pc' = "done"
    /\ UNCHANGED <<f_in, pbVars, doVars>>

SpecHandshake == InitHandshake /\ [][CallRenewAndSummarise]_vars

\* --------------------------------------------- save_cookies_for_update alone
InitRotate ==
    /\ InitPB
    /\ InitDO
    /\ f_pc = "call"
    /\ f_in \in [jar : SeqsUpTo(SessionNames, MaxJar)]
    /\ f_out = <<>>

\* One call save_cookies_for_update(cookies).
CallSaveCookies ==
    /\ f_pc = "call"
    /\ f_out' = SaveCookiesForUpdate(f_in.jar)
    /\ f_pc' = "done"
    /\ UNCHANGED <<f_in, pbVars, doVars>>

SpecRotate == InitRotate /\ [][CallSaveCookies]_vars

\* ------------------------------------------------ notification dispatchers
\* What one request to the messaging transport does: status 200, another
\* status, or an exception of the HTTP client (timeout, connection error).
TransportOutcomes == {"ok", "status"} \cup ExcKinds

\* The evidence argument: not supplied, a path that does not exist, a file
\* that exists, a file that exists and cannot be opened.
EvidenceStates == {"none", "missing", "exists", "unreadable"}

\* The summary text built from (ok, stage, msg), lines 286-299.
Caption(ok, stage, msg) == [ok |-> ok, stage |-> stage, msg |-> msg]

\* One request that reached the transport.
Sent(kind, text) == [kind |-> kind, text |-> text]

\* What a dispatcher did: the requests it made, in order, and whether an
\* exception left it.
Dispatched(sends, raised) == [sends |-> sends, raised |-> raised]

\* A text sender without its try.
SendTextOnlyMutNoTry(text, o) == Dispatched(<<Sent("text", text)>>, o \in ExcKinds)

\* send_text_only(bot_token, chat_id, text) whose request has outcome o: the
\* whole body is inside try / except Exception.
SendTextOnly(text, o) == Dispatched(<<Sent("text", text)>>, FALSE)

\* notify_telegram(ok, stage, msg, screenshot_file): configured tells whether
\* TG_BOT_TOKEN and TG_CHAT_ID are both set, po and to are the outcomes of
\* the attachment request and of the text request.
NotifyTelegram(configured, text, shot, po, to) ==
    IF ~configured THEN Dispatched(<<>>, FALSE)
    ELSE IF shot \in {"none", "missing"}
         THEN Dispatched(SendTextOnly(text, to).sends, FALSE)
    ELSE IF shot = "unreadable" THEN Dispatched(<<>>, FALSE)
    ELSE IF po = "ok" THEN Dispatched(<<Sent("photo", text)>>, FALSE)
    ELSE IF po = "status"
         THEN Dispatched(<<Sent("photo", text)>> \o SendTextOnly(text, to).sends,
                         FALSE)
    ELSE Dispatched(<<Sent("photo", text)>>, FALSE)

\* send_telegram(message) of the multi-account script.
SendTelegram(configured, text, o) ==
    IF ~configured THEN Dispatched(<<>>, FALSE)
    ELSE Dispatched(<<Sent("text", text)>>, FALSE)

Dispatchers == {"notify_telegram", "send_text_only", "send_telegram"}

InitNotify ==
    /\ InitPB
    /\ InitDO
    /\ f_pc = "call"
    /\ f_in \in [fn : Dispatchers, configured : BOOLEAN,
                 ok : BOOLEAN, stage : {"all_done", "script_error"},
                 shot : EvidenceStates,
                 po : TransportOutcomes, to : TransportOutcomes]
    /\ f_out = <<>>

CallNotifyTelegram ==
    /\ f_pc = "call"
    /\ f_in.fn = "notify_telegram"
    /\ f_out' = NotifyTelegram(f_in.configured,
                               Caption(f_in.ok, f_in.stage, "m"),
                               f_in.shot, f_in.po, f_in.to)
    /\ f_pc' = "done"
    /\ UNCHANGED <<f_in, pbVars, doVars>>

\* send_text_only is called by notify_telegram only, hence with the
\* transport configured.
CallSendTextOnly ==
    /\ f_pc = "call"
    /\ f_in.fn = "send_text_only"
    /\ f_out' = SendTextOnly(Caption(f_in.ok, f_in.stage, "m"), f_in.to)
    /\ f_pc' = "done"
    /\ UNCHANGED <<f_in, pbVars, doVars>>

CallSendTelegram ==
    /\ f_pc = "call"
    /\ f_in.fn = "send_telegram"
    /\ f_out' = SendTelegram(f_in.configured,
                             Caption(f_in.ok, f_in.stage, "m"), f_in.to)
    /\ f_pc' = "done"
    /\ UNCHANGED <<f_in, pbVars, doVars>>

NextNotify ==
    \/ CallNotifyTelegram
    \/ CallSendTextOnly
    \/ CallSendTelegram

SpecNotify == InitNotify /\ [][NextNotify]_vars

\* ------------------------------------------------- handle_response alone
InitDiscover ==
    /\ InitPB
    /\ InitDO
    /\ f_pc = "call"
    /\ f_in \in [resps : SeqsUpTo(Responses, MaxResponses) \ {<<>>}]
    /\ f_out = [servers |-> <<>>, captured |-> FALSE, k |-> 0, from |-> {}]

\* handle_response is called for the next response the page receives; k
\* counts the responses seen and from collects the responses that appended
\* to the inventory.
ObserveResponse ==
    /\ f_pc = "call"
    /\ LET k == f_out.k + 1
           r == HandleResponseOn(f_out.servers, f_out.captured, f_in.resps[k])
       IN /\ f_out' = [servers |-> r.servers,
                       captured |-> r.captured,
                       k |-> k,
                       from |-> IF Len(r.servers) > Len(f_out.servers)
                                THEN f_out.from \cup {k} ELSE f_out.from]
          /\ f_pc' = IF k = Len(f_in.resps) THEN "done" ELSE "call"
    /\ UNCHANGED <<f_in, pbVars, doVars>>

SpecDiscover == InitDiscover /\ [][ObserveResponse]_vars

\* ------------------------------------------------------ masking functions
\* Characters of an identity: two letters and the placeholder itself.
MaskChars == {"a", "b", "*"}

\* Characters of a resource id.
IdChars == {"a", "b"}

\* "*" * n
Stars(n) == [i \in 1..n |-> "*"]

\* The default of the parameter show of mask_string.
DefaultShow == 2

\* A masking that leaves short strings as they are.
MaskStringMutKeepShort(s, show) ==
    IF Len(s) <= show THEN s
    ELSE SubSeq(s, 1, show) \o Stars(Len(s) - show)

\* mask_string(s, show), DataOnline_Restart.py lines 15-19
MaskString(s, show) ==
    IF Len(s) <= show THEN Stars(Len(s))
    ELSE SubSeq(s, 1, show) \o Stars(Len(s) - show)

\* mask_id(server_id), PanelBytte_Restart.py lines 43-47
MaskId(server_id) ==
    IF server_id = <<>> \/ Len(server_id) <= 4 THEN server_id
    ELSE SubSeq(server_id, 1, 2) \o Stars(Len(server_id) - 4)
           \o SubSeq(server_id, Len(server_id) - 1, Len(server_id))

InitMask ==
    /\ InitPB
    /\ InitDO
    /\ f_pc = "call"
    /\ f_in \in [fn : {"mask_string"}, s : SeqsUpTo(MaskChars, MaxStr)]
                \cup [fn : {"mask_id"}, s : SeqsUpTo(IdChars, MaxStr)]
    /\ f_out = <<>>

\* mask_string(username), line 65
CallMaskString ==
    /\ f_pc = "call"
    /\ f_in.fn = "mask_string"
    /\ f_out' = <<MaskString(f_in.s, DefaultShow)>>
    /\ f_pc' = "again"
    /\ UNCHANGED <<f_in, pbVars, doVars>>

\* mask_string applied to its own output
CallMaskStringAgain ==
    /\ f_pc = "again"
    /\ f_out' = Append(f_out, MaskString(f_out[1], DefaultShow))
    /\ f_pc' = "done"
    /\ UNCHANGED <<f_in, pbVars, doVars>>

\* mask_id(server_id) as written to the log, lines 633 and 713-717
CallMaskId ==
    /\ f_pc = "call"
    /\ f_in.fn = "mask_id"
    /\ f_out' = <<MaskId(f_in.s)>>
    /\ f_pc' = "done"
    /\ UNCHANGED <<f_in, pbVars, doVars>>

NextMask ==
    \/ CallMaskString
    \/ CallMaskStringAgain
    \/ CallMaskId

SpecMask == InitMask /\ [][NextMask]_vars

\* ------------------------------------- execute_account: the failure handler
\* A word of the text of an exception, str(e): a harmless word, a word that
\* echoes the identity or the secret, or a field name (username, password,
\* command) joined by "=" or ":" to a value that is harmless, the identity
\* or the secret.
Word(t, v) == [t |-> t, v |-> v]

ErrorWords ==
    {Word("plain", "text")}
    \cup {Word("echo", v) : v \in {"identity", "secret"}}
    \cup {Word("field", v) : v \in {"text", "identity", "secret"}}

\* line 167: re.sub(r'(username|password|command)[=:]\s*\S+', r'\1=***',
\* error_msg, flags=re.I): the value of every field is replaced, every other
\* word is left as it is.
Scrub(msg) ==
    [i \in 1..Len(msg) |->
        IF msg[i].t = "field" THEN Word("field", "***") ELSE msg[i]]

InitScrub ==
    /\ InitPB
    /\ InitDO
    /\ f_pc = "call"
    /\ f_in \in [text : SeqsUpTo(ErrorWords, MaxWords) \ {<<>>}]
    /\ f_out = <<>>

\* lines 164-171 for an exception whose text is f_in.text: the message that
\* is logged, recorded in the result and sent, beside the masked identity.
CallFailureHandler ==
    /\ f_pc = "call"
    /\ LET error_msg == Scrub(f_in.text)
       IN f_out' = [logged |-> error_msg,
                    recorded |-> error_msg,
                    sent |-> error_msg,
                    account |-> "masked_user"]
    /\ f_pc' = "done"
    /\ UNCHANGED <<f_in, pbVars, doVars>>

SpecScrub == InitScrub /\ [][CallFailureHandler]_vars

\* ------------------------------------------------------ parse_accounts alone
\* A line of the batch text is a sequence of symbols: a letter, a blank, and
\* "D" for one occurrence of the delimiter "----".
LineSymbols == {"a", " ", "D"}

RawLines == SeqsUpTo(LineSymbols, MaxLineLen)

RECURSIVE SplitFields(_)
\* line.split("----"): the fields between the delimiters, at least one
SplitFields(line) ==
    LET ds == {i \in 1..Len(line) : line[i] = "D"}
    IN IF ds = {} THEN <<line>>
       ELSE LET d == CHOOSE i \in ds : \A j \in ds : i <= j
            IN <<SubSeq(line, 1, d - 1)>> \o SplitFields(SubSeq(line, d + 1, Len(line)))

\* A test that accepts lines of exactly three fields only.
EnoughFieldsMutExactly(parts) == Len(parts) = 3

\* line 33: len(parts) >= 3
EnoughFields(parts) == Len(parts) >= 3

RECURSIVE ParseAccounts(_)
\* parse_accounts, lines 24-39, on the lines of raw.strip().split("\n")
ParseAccounts(lines) ==
    IF lines = <<>> THEN <<>>
    ELSE LET line == Strip(Head(lines))
             parts == SplitFields(line)
         IN IF line = <<>> THEN ParseAccounts(Tail(lines))
            ELSE IF EnoughFields(parts)
                 THEN <<[username |-> Strip(parts[1]),
                         password |-> Strip(parts[2]),
                         command |-> Strip(parts[3])]>>
                      \o ParseAccounts(Tail(lines))
                 ELSE ParseAccounts(Tail(lines))

\* The batch texts the call is tried on: one line, and two lines in either
\* order.
RawTexts == {<<a>> : a \in RawLines} \cup {<<a, b>> : a, b \in RawLines}

InitParse ==
    /\ InitPB
    /\ InitDO
    /\ f_pc = "call"
    /\ f_in \in [lines : RawTexts]
    /\ f_out = <<>>

\* One call parse_accounts().
CallParseAccounts ==
    /\ f_pc = "call"
    /\ f_out' = ParseAccounts(f_in.lines)
    /\ f_pc' = "done"
    /\ UNCHANGED <<f_in, pbVars, doVars>>

SpecParse == InitParse /\ [][CallParseAccounts]_vars

\* ================================================================ claims ==
\* The success report (stage "all_done") has been sent.
ReportSent == \E k \in 1..Len(notes) : notes[k].stage = "all_done"

\* Positions of main() inside the body of the loop over the resources.
InResourceTry == {"res_console", "res_inspect", "res_settings", "res_renew",
                  "res_summary", "res_catch"}

C2_EveryRunReports == (pc = "exited" /\ idx >= 1) => ReportSent

\* Exceptions raised after the loop started and outside a resource's try.
LateEscapes == {"settle", "rotate_read", "rotate_write"}

\* C2 amended: once the loop over the resources has started, every run
\* reaches the rotation phase unless the wait between resources raises, and
\* then the final report unless the token read-back or the artifact write
\* raises; failures inside resources never prevent either. The tokens are
\* read only when every resource has its line, and the report is sent only
\* after the rotation phase has ended.
C2_RotationThenReport ==
    /\ [](pc = "rotate" => (idx = Len(api_servers) /\ Len(results) = Len(api_servers)))
    /\ [](secret # "none" => Len(results) = Len(api_servers))
    /\ [](ReportSent => secret # "none")
    /\ ((pc = "res_console" /\ idx = 1) ~> (pc = "rotate" \/ escaped = "settle"))
    /\ ((pc = "res_console" /\ idx = 1) ~> (ReportSent \/ escaped \in LateEscapes))

\* C2 witness: the report is sent although every one of two resources failed.
C2_Witness ==
    /\ ReportSent
    /\ Len(api_servers) = 2
    /\ raisedAt = {1, 2}
    /\ secret # "none"

FatalStages == {"init_failed", "cookie_parse", "login_check", "get_servers",
                "script_error"}

\* C5: the exit status is 0 exactly when the final report was sent, and it is
\* 1 after a missing credential input, a cookie string without tokens, a
\* landing on the login surface, an empty inventory, and an exception
\* outside the per-resource boundary.
C5_ExitStatus ==
    pc = "exited" =>
        /\ exit_status \in {0, 1}
        /\ (exit_status = 0 <=> ReportSent)
        /\ (escaped # "none" => exit_status = 1)
        /\ \A k \in 1..Len(notes) : notes[k].stage \in FatalStages => exit_status = 1
        /\ (browser = "none" => exit_status = 1)

\* C5 witness: exit status 0 after a report in which a resource failed,
\* another restarted and renewed.
C5_Witness ==
    /\ pc = "exited"
    /\ exit_status = 0
    /\ Len(results) = 2
    /\ results[1].kind = "error"
    /\ results[2].restart = "restart_ok"
    /\ results[2].renew = "renew_ok"

\* C8 as stated: the run fails on the landing navigation only after three
\* attempts.
C8_LandingRetried == escaped = "landing" => navs = MAX_RETRIES

\* C3 as stated: the run ends with one result record per account, in input
\* order.
C3_OneRecordPerAccount ==
    d_pc = "exited" =>
        /\ Len(d_results) = Len(d_accounts)
        /\ \A k \in 1..Len(d_results) : d_results[k].account = d_accounts[k].username

\* C6 as stated: a batch without a valid account ends the process with a
\* non-zero status and without a browser.
C6_EmptyBatchIsFatal ==
    (d_pc = "exited" /\ d_accounts = <<>>) => (d_exit # 0 /\ d_browser = "none")

\* k failed attempts, each followed by the delay.
FailedAttempts(k) == [j \in 1..(2 * k) |-> IF j % 2 = 1 THEN "nav_fail" ELSE "sleep"]

\* The complete login-phase traces the stated retry discipline allows.
AllowedLoginTraces ==
    {FailedAttempts(k) \o <<"nav_ok", "submit", "rejected">> : k \in 0..(MAX_RETRIES - 1)}
    \cup {FailedAttempts(k) \o <<"nav_ok", "submit", "login_ok">> : k \in 0..(MAX_RETRIES - 1)}
    \cup {FailedAttempts(MAX_RETRIES - 1) \o <<"nav_fail">>}

IsPrefix(a, b) == Len(a) <= Len(b) /\ SubSeq(b, 1, Len(a)) = a

\* Positions of execute_account at which the login is still being attempted
\* or the account's work goes on.
DWorking == {"nav", "nav_sleep", "form", "confirm", "console", "command",
             "evidence", "succeed"}

\* C7: for each account the navigation to the login surface is attempted at
\* most MAX_RETRIES times and not again after a success; the delay is taken
\* only after a failed attempt that is followed by another attempt; the third
\* failure fails the account; after a rejection there is no further
\* navigation or submission for the account and it is recorded unsuccessful.
C7_LoginRetryDiscipline ==
    /\ \E t \in AllowedLoginTraces : IsPrefix(d_log, t)
    /\ Cardinality({j \in 1..Len(d_log) : d_log[j] \in {"nav_ok", "nav_fail"}})
          <= MAX_RETRIES
    /\ (d_log # <<>> /\ d_log[Len(d_log)] = "sleep") => d_pc = "nav"
    /\ (d_log # <<>> /\ d_log[Len(d_log)] = "rejected")
          => (d_pc \notin DWorking /\ ~d_result.success)
    /\ d_log = FailedAttempts(MAX_RETRIES - 1) \o <<"nav_fail">>
          => (d_pc \notin DWorking /\ ~d_result.success)

\* C7 witness: the third attempt failed and the account is being failed.
C7_Witness ==
    /\ d_log = <<"nav_fail", "sleep", "nav_fail", "sleep", "nav_fail">>
    /\ d_pc = "catch"
    /\ d_exc = "nav_failed"

\* C9: check_need_restart returns true iff the start control exists and is
\* not disabled or the stop control exists and is disabled; it returns false
\* when neither control exists and whenever a read of a control raised.
C9_RestartDecision ==
    f_pc = "done" =>
        /\ (~f_out.raised =>
              (f_out.ret <=> (f_in.pg.start = "enabled" \/ f_in.pg.stop = "disabled")))
        /\ (f_out.raised => ~f_out.ret)
        /\ (f_in.fault = "none" => ~f_out.raised)
        /\ ((f_in.pg.start = "absent" /\ f_in.pg.stop = "absent") => ~f_out.ret)

\* C9 witness: start disabled and stop disabled give true.
C9_Witness ==
    /\ f_pc = "done"
    /\ f_in.pg.start = "disabled"
    /\ f_in.pg.stop = "disabled"
    /\ f_in.fault = "none"
    /\ f_out.ret

\* C10 as stated: the renewal control or the confirmation control is clicked
\* only if the price segment after the separator is numerically zero.
C10_ClickOnlyIfPriceZero ==
    f_pc = "done" =>
        ((f_out.renewClicks > 0 \/ f_out.confirmClicks > 0)
            => PriceIsZero(Strip(f_in.label)))

\* t is written as a number: digits, then optionally a point and digits.
IsNumeral(t) ==
    \E k \in 1..Len(t) :
        /\ \A j \in 1..k : t[j] \in Digits
        /\ \/ k = Len(t)
           \/ (t[k + 1] = "." /\ \A j \in (k + 2)..Len(t) : t[j] \in Digits)

HasNumber(seg) == \E i \in 1..Len(seg) : seg[i] \in Digits

\* The first number written in seg: the longest numeral that starts at the
\* first digit of seg.
FirstNumber(seg) ==
    LET b == CHOOSE i \in 1..Len(seg) :
                 seg[i] \in Digits /\ \A j \in 1..(i - 1) : seg[j] \notin Digits
        e == CHOOSE k \in b..Len(seg) :
                 /\ IsNumeral(SubSeq(seg, b, k))
                 /\ \A l \in (k + 1)..Len(seg) : ~IsNumeral(SubSeq(seg, b, l))
    IN SubSeq(seg, b, e)

HasSeparator(t) == \E i \in 1..Len(t) : t[i] = "-"

\* The text after the last separator of a label ("" without a separator).
SegmentAfterSeparator(t) ==
    IF HasSeparator(t)
    THEN LET last == CHOOSE i \in 1..Len(t) :
                         t[i] = "-" /\ \A j \in (i + 1)..Len(t) : t[j] # "-"
         IN SubSeq(t, last + 1, Len(t))
    ELSE <<>>

HasLiteralFree(t) ==
    \E i \in 1..(Len(t) - 3) :
        t[i] = "0" /\ t[i + 1] = "." /\ t[i + 2] = "0" /\ t[i + 3] = "0"

\* The stated eligibility policy.
PolicyFree(t) ==
    \/ HasLiteralFree(t)
    \/ /\ HasNumber(SegmentAfterSeparator(t))
       /\ \A i \in 1..Len(FirstNumber(SegmentAfterSeparator(t))) :
              FirstNumber(SegmentAfterSeparator(t))[i] # "4"

\* C11 as stated, on the labels that are not blank: the decision equals the
\* policy, and a label without separator and literal, or whose price segment
\* holds no number, is not free and gets the paid-renewal message.
C11_PolicyForEveryLabel ==
    (f_pc = "done" /\ Strip(f_in.label) # <<>>) =>
        LET t == Strip(f_in.label)
        IN /\ f_out.need_renew <=> PolicyFree(t)
           /\ (\/ (~HasSeparator(t) /\ ~HasLiteralFree(t))
               \/ (HasSeparator(t) /\ ~HasNumber(SegmentAfterSeparator(t))))
                 => (~f_out.need_renew /\ f_out.message = "paid")

\* C11 amended: for every label that is not blank the decision equals the
\* policy (literal "0.00" anywhere, or first number of the segment after the
\* last separator equal to zero); a label that is not free gets
\* need_renew = false, no click and the paid-renewal message, and that is the
\* case of every label without the literal that has no separator or no number
\* in its price segment.
C11_EligibilityEqualsPolicy ==
    (f_pc = "done" /\ Strip(f_in.label) # <<>>) =>
        LET t == Strip(f_in.label)
        IN /\ f_out.need_renew <=> PolicyFree(t)
           /\ ~f_out.need_renew =>
                 (f_out.message = "paid" /\ f_out.renewClicks = 0
                    /\ f_out.confirmClicks = 0 /\ ~f_out.renewed)
           /\ (/\ ~HasLiteralFree(t)
               /\ ~HasNumber(SegmentAfterSeparator(t)))
                 => (~f_out.need_renew /\ f_out.message = "paid")

\* C11 witness: a label free by its parsed price although it has no literal.
C11_Witness ==
    /\ f_pc = "done"
    /\ f_in.label = <<"R", " ", "-", " ", "0">>
    /\ f_out.need_renew
    /\ f_out.renewClicks = 1

NoVisibleCandidate == \A i \in 1..ConfirmSelectors : f_in.confirm[i] # "visible"

\* C12 as stated: renewed only after both clicks, and whenever the renewal
\* control was clicked while no confirmation candidate is present and
\* visible the result is need_renew, not renewed, the message "no
\* confirmation control", and a renewal failure in the report line.
C12_HandshakeAsStated ==
    f_pc = "done" =>
        /\ f_out.res.renewed =>
              (f_out.res.renewClicks = 1 /\ f_out.res.confirmClicks >= 1
                 /\ ~NoVisibleCandidate)
        /\ (f_out.res.renewClicks = 1 /\ NoVisibleCandidate) =>
              /\ f_out.res.need_renew
              /\ ~f_out.res.renewed
              /\ f_out.res.message = "no_confirm"
              /\ f_out.line.renew = "renew_failed"

\* C12 amended: renewed is true only if the renewal control was clicked and a
\* present and visible confirmation candidate was clicked; when the renewal
\* control was clicked and no candidate is present and visible, the result
\* is need_renew and not renewed and the report line shows a renewal
\* failure, with the message "no confirmation control" when the wait for the
\* dialog returned and the check-failed message when that wait raised.
C12_TwoStepHandshake ==
    f_pc = "done" =>
        /\ f_out.res.renewed =>
              (f_out.res.renewClicks = 1 /\ f_out.res.confirmClicks >= 1
                 /\ ~NoVisibleCandidate /\ f_out.res.need_renew
                 /\ f_out.res.message = "renewed_ok"
                 /\ f_out.line.renew = "renew_ok")
        /\ (f_out.res.renewClicks = 1 /\ NoVisibleCandidate) =>
              /\ f_out.res.need_renew
              /\ ~f_out.res.renewed
              /\ f_out.res.confirmClicks = 0
              /\ f_out.res.message =
                    (IF f_in.fault.at = "dialog_wait" THEN "check_failed"
                     ELSE "no_confirm")
              /\ f_out.line.renew = "renew_failed"

\* C12 witness: the renewal control was clicked, the only confirmation
\* candidate found is hidden, and the report line shows a renewal failure.
C12_Witness ==
    /\ f_pc = "done"
    /\ f_in.confirm = [i \in 1..ConfirmSelectors |-> IF i = 2 THEN "hidden" ELSE "absent"]
    /\ f_in.fault = NoFault
    /\ f_out.res.renewClicks = 1
    /\ f_out.res.message = "no_confirm"
    /\ f_out.line.renew = "renew_failed"

Occurrences(q, n) == Cardinality({i \in 1..Len(q) : q[i] = n})

\* The names of the session that equal or start with a recognized
\* important name-prefix.
RecognizedNames == {N_remember, N_session, N_xsrf, N_cfc, N_cfbm, N_ga, N_gax}

\* C13: the rotation output holds every token with a recognized name exactly
\* as often as the session holds it, and no other token.
C13_OutputIsFilteredInput ==
    f_pc = "done" =>
        \A n \in SessionNames :
            Occurrences(f_out, n) =
                (IF n \in RecognizedNames THEN Occurrences(f_in.jar, n) ELSE 0)

\* C13 witness: of a primary session token, an analytics token and an
\* unknown token the first two are kept.
C13_Witness ==
    /\ f_pc = "done"
    /\ f_in.jar = <<N_unknown, N_ga, N_remember>>
    /\ f_out = <<N_remember, N_ga>>

\* The stated priority class of a retained token.
PriorityClass(n) ==
    IF n = N_remember THEN 0
    ELSE IF n = N_session THEN 1
    ELSE IF n = N_xsrf THEN 2
    ELSE IF n \in {N_cfc, N_cfbm} THEN 3
    ELSE 4

\* C14 as stated: in the rotation output no token of a lower class precedes
\* a token of a higher class.
C14_PriorityOrder ==
    f_pc = "done" =>
        \A i, j \in 1..Len(f_out) :
            i < j => PriorityClass(f_out[i]) <= PriorityClass(f_out[j])

\* C15: when the session read back for the rotation holds no token with a
\* recognized name, no artifact is written, the secret store is not invoked,
\* no exception comes out of the rotation phase, and the run goes on to the
\* success report and exit status 0.
C15_EmptyRotationSkipped ==
    (cookie_jar.read
       /\ \A i \in 1..Len(cookie_jar.names) : cookie_jar.names[i] \notin RecognizedNames)
    => /\ artifact = "none"
       /\ secret = "not_called"
       /\ new_cookie_str = <<>>
       /\ escaped = "none"
       /\ pc \in {"report", "finally", "exited"}
       /\ pc \in {"finally", "exited"} => ReportSent
       /\ pc = "exited" => exit_status = 0

\* C15 witness: a run whose session held only an unknown token has ended.
C15_Witness ==
    /\ pc = "exited"
    /\ cookie_jar = [read |-> TRUE, names |-> <<N_unknown>>]
    /\ secret = "not_called"
    /\ exit_status = 0
    /\ ReportSent

C17_TextFallback ==
    (f_pc = "done" /\ f_in.fn = "notify_telegram" /\ f_in.configured) =>
        LET text == Caption(f_in.ok, f_in.stage, "m")
        IN /\ (f_in.shot = "exists" /\ f_in.po # "ok")
                 => f_out.sends = <<Sent("photo", text), Sent("text", text)>>
           /\ f_in.shot \in {"none", "missing"}
                 => f_out.sends = <<Sent("text", text)>>

\* The managed-resource entries of a response body, in order.
ServerEntries(body) ==
    LET pos == {i \in 1..Len(body.entries) : body.entries[i] = "server"}
        Nth(n) == CHOOSE i \in pos : Cardinality({j \in pos : j <= i}) = n
    IN [n \in 1..Cardinality(pos) |-> [id |-> Nth(n)]]

\* The responses seen so far that match the endpoint with status 200 and
\* carry a list of entries.
SeenInventories ==
    {j \in 1..f_out.k : f_in.resps[j].match /\ f_in.resps[j].body.kind = "list"}

\* C18 as stated, read in the weakest way: after any number of responses the
\* inventory holds entries of at most one response; and when every entry of
\* the first matching inventory response can be read, the inventory is
\* exactly the managed-resource entries of that response.
C18_OneShotLatch ==
    /\ Cardinality(f_out.from) <= 1
    /\ IF SeenInventories = {} THEN f_out.servers = <<>>
       ELSE LET first == CHOOSE j \in SeenInventories :
                             \A l \in SeenInventories : j <= l
            IN (\A i \in 1..Len(f_in.resps[first].body.entries) :
                    f_in.resps[first].body.entries[i] # "bad")
               => /\ f_out.servers = ServerEntries(f_in.resps[first].body)
                  /\ f_out.from \subseteq {first}

\* C19: mask_string with the default of 2 shown characters keeps the length;
\* a string of at most 2 characters becomes all placeholders, a longer one
\* its first 2 characters followed by placeholders; masking the result again
\* changes nothing.
C19_MaskStringIdempotent ==
    (f_in.fn = "mask_string" /\ f_pc \in {"again", "done"}) =>
        /\ Len(f_out[1]) = Len(f_in.s)
        /\ \A i \in 1..Len(f_in.s) :
              f_out[1][i] = (IF Len(f_in.s) > 2 /\ i <= 2 THEN f_in.s[i] ELSE "*")
        /\ f_pc = "done" => f_out[2] = f_out[1]

\* C19 witness: a string of letters and a placeholder, masked twice.
C19_Witness ==
    /\ f_pc = "done"
    /\ f_in.fn = "mask_string"
    /\ f_in.s = <<"a", "*", "b", "a">>
    /\ f_out = <<<<"a", "*", "*", "*">>, <<"a", "*", "*", "*">>>>

\* C20 as stated: the logged form of every non-empty resource id differs
\* from the id and hides at least one of its characters.
C20_IdMaskedInLogs ==
    (f_pc = "done" /\ f_in.fn = "mask_id" /\ f_in.s # <<>>) =>
        /\ f_out[1] # f_in.s
        /\ \E i \in 1..Len(f_in.s) : f_out[1][i] = "*"

\* -------------------------------------------------------- do_restart alone
InitRestart ==
    /\ InitPB
    /\ InitDO
    /\ f_pc = "call"
    /\ f_in \in [pg : ConsolePages, fault : RestartFaults]
    /\ f_out = <<>>

\* One call do_restart(page).
CallDoRestart ==
    /\ f_pc = "call"
    /\ f_out' = DoRestart(f_in.pg, f_in.fault)
    /\ f_pc' = "done"
    /\ UNCHANGED <<f_in, pbVars, doVars>>

SpecRestart == InitRestart /\ [][CallDoRestart]_vars

\* A message shows the identity or the secret.
Exposes(msg) == \E i \in 1..Len(msg) : msg[i].v \in {"identity", "secret"}

\* C21 as stated: whatever the text of the exception, the message that is
\* logged, recorded and sent shows neither the identity nor the secret, and
\* the account is named by its masked form only.
C21_NoIdentityLeaves ==
    f_pc = "done" =>
        /\ ~Exposes(f_out.logged)
        /\ ~Exposes(f_out.recorded)
        /\ ~Exposes(f_out.sent)
        /\ f_out.account = "masked_user"

\* Positions of the delimiters of a line.
Delims(line) == {i \in 1..Len(line) : line[i] = "D"}

\* Position of the n-th element of a set of positions (0 when n = 0).
NthOf(pos, n) ==
    IF n = 0 THEN 0 ELSE CHOOSE i \in pos : Cardinality({j \in pos : j <= i}) = n

\* Field n of a line with at least n - 1 delimiters: the text after its
\* (n - 1)-th delimiter up to the next delimiter or the end of the line,
\* without surrounding blanks.
FieldOf(line, n) ==
    LET from == NthOf(Delims(line), n - 1) + 1
        to == IF Cardinality(Delims(line)) >= n
              THEN NthOf(Delims(line), n) - 1 ELSE Len(line)
        nb == {i \in from..to : line[i] # " "}
    IN IF nb = {} THEN <<>>
       ELSE SubSeq(line, CHOOSE i \in nb : \A j \in nb : i <= j,
                         CHOOSE i \in nb : \A j \in nb : i >= j)

\* The lines of the input that carry at least three fields.
AcceptedLines == {i \in 1..Len(f_in.lines) : Cardinality(Delims(f_in.lines[i])) >= 2}

\* C22: the accounts returned are, in input order, one per line with at
\* least three delimited fields (two delimiters or more), made of the
\* line's first three fields without surrounding blanks; every other line
\* contributes nothing.
C22_OneAccountPerGoodLine ==
    f_pc = "done" =>
        /\ Len(f_out) = Cardinality(AcceptedLines)
        /\ \A n \in 1..Len(f_out) :
              LET line == f_in.lines[NthOf(AcceptedLines, n)]
              IN /\ f_out[n].username = FieldOf(line, 1)
                 /\ f_out[n].password = FieldOf(line, 2)
                 /\ f_out[n].command = FieldOf(line, 3)

\* C22 witness: a line of two fields is dropped, the next line of three
\* fields gives the only account.
C22_Witness ==
    /\ f_pc = "done"
    /\ f_in.lines = << <<"a", "D", "a">>, <<"a", "D", "D">> >>
    /\ f_out = << [username |-> <<"a">>, password |-> <<>>, command |-> <<>>] >>
\* C23: do_restart clicks at most one control and returns true iff it
\* clicked one and the settle wait completed; when no driver call raises it
\* clicks the start control iff that is enabled, otherwise the restart control
\* iff that is enabled, and returns false without a click when neither is
\* actionable; when a driver call raises it returns false, having clicked
\* nothing but possibly the control the protocol had chosen.
Chosen(pg) ==
    IF pg.start = "enabled" THEN "start"
    ELSE IF pg.restart = "enabled" THEN "restart"
    ELSE "none"

C23_RestartProtocol ==
    f_pc = "done" =>
        /\ f_out.ret \in BOOLEAN
        /\ f_out.clicked \in {"none", "start", "restart"}
        /\ f_out.ret <=> (f_out.clicked # "none" /\ ~f_out.raised)
        /\ ~f_out.raised => f_out.clicked = Chosen(f_in.pg)
        /\ f_out.raised => /\ f_out.ret = FALSE
                           /\ f_out.clicked \in {"none", Chosen(f_in.pg)}

C23_Witness ==
    /\ f_pc = "done"
    /\ f_in.pg.start = "disabled"
    /\ f_in.pg.restart = "enabled"
    /\ f_in.fault = "none"
    /\ f_out = [ret |-> TRUE, clicked |-> "restart", raised |-> FALSE]

\* The directives submitted for the account at position k of the batch.
CmdsOf(k) == {i \in 1..Len(d_cmds) : d_cmds[i].account = k}

LoginConfirmed == "login_ok" \in Range(d_log)

\* C24 as stated: an account whose login was confirmed has had its directive
\* submitted exactly once by the time execute_account reaches its finally
\* clause.
C24_SubmittedOnceWhenConfirmed ==
    (d_pc = "logout" /\ LoginConfirmed) => Cardinality(CmdsOf(d_i)) = 1

\* C24 amended: a directive is submitted at most once per account, through one
\* route, and only after that account's login was confirmed; it has been
\* submitted exactly once when the command step completed; an account whose
\* result is the navigation failure or the rejected login has none.
C24_SubmittedAtMostOnce ==
    /\ \A k \in 1..Len(d_accounts) : Cardinality(CmdsOf(k)) <= 1
    /\ \A i \in 1..Len(d_cmds) :
          /\ d_cmds[i].via \in {"input", "keyboard"}
          /\ d_cmds[i].account <= d_i
    /\ (d_i >= 1 /\ CmdsOf(d_i) # {}) => LoginConfirmed
    /\ d_pc \in {"evidence", "succeed"} => Cardinality(CmdsOf(d_i)) = 1
    /\ \A k \in 1..Len(d_results) :
          /\ d_results[k].success => Cardinality(CmdsOf(k)) = 1
          /\ d_results[k].message \in {"nav_failed", "rejected", "rejected_text"}
                => CmdsOf(k) = {}

C24_Witness ==
    /\ Len(d_results) = 2
    /\ d_results[1].message = "rejected"
    /\ d_results[2].success
    /\ Len(d_cmds) = 1
    /\ d_cmds[1].account = 2
    /\ d_cmds[1].via = "keyboard"

\* C25: when the processing of an account after the first starts, the browser
\* session holds no authenticated state of an earlier account.
C25_FreshSessionPerAccount ==
    (d_pc = "acct_begin" /\ d_i >= 2) => d_sess = 0

\* The notifications of the run that report a failure, and those that report
\* success.
FailureNotes == {i \in 1..Len(notes) : ~notes[i].ok}

SuccessNotes == {i \in 1..Len(notes) : notes[i].ok}

\* C26: a run in which an exception was raised outside the per-resource
\* boundary after the session existed sends exactly one failure notification
\* (that of the outermost handler), sends no success report, and ends with
\* status 1; this also holds when the error evidence could not be captured.
C26_OuterBoundary ==
    escaped # "none" =>
        /\ SuccessNotes = {}
        /\ pc = "toperr" => FailureNotes = {}
        /\ pc \in {"finally", "exited"} =>
              /\ Cardinality(FailureNotes) = 1
              /\ \A i \in FailureNotes : notes[i].stage = "script_error"
        /\ pc = "exited" => exit_status = 1

C26_Witness ==
    /\ pc = "exited"
    /\ escaped = "rotate_write"
    /\ final_screenshot.tag = "02-dashboard"
    /\ Len(results) = 2
    /\ Len(notes) = 1
    /\ notes[1].stage = "script_error"
    /\ exit_status = 1

\* What a call of update_github_secret comes to.
SecretOutcomes == {"skipped_no_token", "skipped_no_repo", "updated", "failed"}

SecretNotUpdated == secret \in {"skipped_no_token", "skipped_no_repo", "failed"}

\* C27: when update_github_secret was called and returned false (REPO_TOKEN
\* or GITHUB_REPOSITORY absent: nothing was sent; or the exchange with the
\* store failed), the run still sends the success report with one line per
\* resource, sends no failure notification, and ends with status 0.
C27_SecretCannotFailRun ==
    /\ secret \in SecretOutcomes \cup {"none", "not_called"}
    /\ secret \in {"skipped_no_token", "skipped_no_repo"} => outbound = <<>>
    /\ SecretNotUpdated =>
          /\ escaped = "none"
          /\ pc \in {"report", "finally", "exited"}
          /\ FailureNotes = {}
          /\ Len(results) = Len(api_servers)
          /\ pc \in {"finally", "exited"} =>
                /\ Len(notes) = 1
                /\ notes[1].ok
                /\ notes[1].msg = results
          /\ pc = "exited" => exit_status = 0

C27_Witness ==
    /\ pc = "exited"
    /\ secret = "failed"
    /\ outbound = <<"get_key", "put_secret">>
    /\ Len(api_servers) = 2
    /\ Len(notes) = 1
    /\ notes[1].ok
    /\ Len(notes[1].msg) = 2
    /\ exit_status = 0

\* C28: in the final report, the line of every resource on which a start or
\* restart control was clicked states the restart outcome.
C28_ReportReflectsRestart ==
    \A n \in SuccessNotes :
        \A k \in clickedAt :
            /\ k <= Len(notes[n].msg)
            /\ notes[n].msg[k].restart \in {"restart_ok", "restart_failed"}

\* C29: once the browser was launched, the process of the multi-account
\* workflow does not end before the browser was closed.
C29_BrowserClosedOnEveryExit ==
    (d_pc = "exited" /\ d_browser # "none") => d_browser = "closed"

====
